---- MODULE Spec2Model ----
(***************************************************************************)
(* Stream-availability pipeline of SeerrCatalog: the probe cycle           *)
(* (services/streamChecker.js, services/stremio.js), the media store       *)
(* (db/index.js), the emulated Jellyfin / Radarr / Sonarr endpoints and    *)
(* the 24h background checker.                                             *)
(*                                                                         *)
(* Time is counted in minutes.  A text is a sequence of lines, a line a    *)
(* sequence of tokens (words); "" / undefined / null is the empty          *)
(* sequence.                                                               *)
(***************************************************************************)
EXTENDS Integers, Sequences, FiniteSets, TLC

VARIABLES
    cyc,            \* the probe cycle followed step by step (SpecProbe)
    media,          \* the media table: id -> row
    nextId,         \* the next AUTOINCREMENT id of the media table
    authKey,        \* whether the owner (user 1) has a stremio_auth_key
    clock,          \* Date.now(), in minutes since the process started
    advances,       \* how many times the clock has advanced
    requests,       \* how many requests that change or re-check have been served,
                    \* and how many items have failed
    startupPending, \* the 60 s setTimeout of startBackgroundChecker is armed
    nextInterval,   \* when the setInterval of startBackgroundChecker fires next
    jobs,           \* the asynchronous tasks in flight (passes, probes)
    running,        \* the Node process has not exited
    extra,          \* the timers armed by further calls of startBackgroundChecker
    autoCleanup,    \* the setting auto_cleanup_1 is 'true'
    users,          \* the users table (id -> row) and its next AUTOINCREMENT id
    ev,             \* history: what the last step answered, skipped, probed
    hist            \* history: id -> the verdicts recorded for it

vars == <<cyc, users, autoCleanup, media, nextId, authKey, clock, advances, requests, startupPending,
          nextInterval, jobs, running, extra, ev, hist>>

sysvars == <<users, autoCleanup, media, nextId, authKey, clock, advances, requests, startupPending,
             nextInterval, jobs, running, extra, ev, hist>>

\* ------------------------------------------------------------------ bounds

\* Longest addon list the addon directory returns in one probe cycle.
MaxAddons == 3

\* Rows ever inserted into the media table.
MaxItems == 2

\* Asynchronous tasks in flight at one time.
MaxJobs == 2

\* Times the clock advances.
MaxAdvances == 2

\* Requests served that change a key, delete a row or start a check
\* of rows already stored, and items that fail, together.
MaxRequests == 1

\* ------------------------------------------------------- program constants

\* streams.slice(0, 10): stream records kept per addon.
MaxStreamsKept == 10

\* RECHECK_INTERVAL = 24 * 60 * 60 * 1000 ms, in minutes.
RECHECK_INTERVAL == 1440

\* REVERIFY_INTERVAL = 60 * 60 * 1000 ms, in minutes.
REVERIFY_INTERVAL == 60

\* The delay of the first tick, 60 * 1000 ms, in minutes.
STARTUP_DELAY == 1

\* ------------------------------------------------------------- small helpers

Min(a, b) == IF a < b THEN a ELSE b

RECURSIVE Flatten(_)
Flatten(text) == IF text = <<>> THEN <<>> ELSE Head(text) \o Flatten(Tail(text))

\* All sequences without repetition over the elements of S.
RECURSIVE Perms(_)
Perms(S) ==
    IF S = {} THEN {<<>>}
    ELSE UNION {{<<x>> \o p : p \in Perms(S \ {x})} : x \in S}

\* ---------------------------------------------------------------- text model

HtmlTags == {"<b>", "</b>"}

QualityTokens ==
    {"4K", "4k", "2160p", "2160P", "1080p", "1080P", "720p", "720P",
     "480p", "480P", "HDR", "hdr", "DV", "dv"}

\* String.prototype.toUpperCase on the tokens of the vocabulary.
ToUpperCase(t) ==
    CASE t \in {"4K", "4k"} -> "4K"
      [] t \in {"2160p", "2160P"} -> "2160P"
      [] t \in {"1080p", "1080P"} -> "1080P"
      [] t \in {"720p", "720P"} -> "720P"
      [] t \in {"480p", "480P"} -> "480P"
      [] t \in {"HDR", "hdr"} -> "HDR"
      [] t \in {"DV", "dv"} -> "DV"
      [] t \in {"FRENCH", "french"} -> "FRENCH"
      [] t \in {"MULTI", "multi"} -> "MULTI"
      [] OTHER -> t

\* name.match(/\b(4K|2160p|1080p|720p|480p|HDR|DV|Dolby Vision)\b/i):
\* the first token of the line that is a quality token, upper-cased.
RECURSIVE extractQuality(_)
extractQuality(line) ==
    IF line = <<>> THEN ""
    ELSE IF Head(line) \in QualityTokens THEN ToUpperCase(Head(line))
    ELSE extractQuality(Tail(line))

\* displayName.replace(/<[^>]*>/g, ' ').trim()
StripTags(line) == SelectSeq(line, LAMBDA t : t \notin HtmlTags)

\* The best release name of a raw stream:
\* behaviorHints.filename > first line of description > first line of
\* title > name > 'Unknown'; a field counts when it is a non-empty string.
DisplayName(s) ==
    StripTags(
        IF s.filename # <<>> THEN Flatten(s.filename)
        ELSE IF s.description # <<>> THEN s.description[1]
        ELSE IF s.title # <<>> THEN s.title[1]
        ELSE IF s.name # <<>> THEN Flatten(s.name)
        ELSE <<"Unknown">>)

\* One entry of streamDetails.
StreamDetail(s) ==
    [name    |-> DisplayName(s),
     quality |-> extractQuality(DisplayName(s) \o Flatten(s.name))]

\* A raw stream whose mapping throws: a null entry (s.behaviorHints of
\* null), or a title that is not a string (s.title.split is not a
\* function).
Throws(s) == s.malformed # ""

\* The debug log reads the fields of streams[0]: it throws on a null entry.
LogThrows(streams) == streams[1].malformed = "null"


\* ------------------------------------------------------ probe cycle: inputs

Text(tokens) == << tokens >>

RawStream(filename, description, title, name, malformed) ==
    [filename |-> filename, description |-> description, title |-> title,
     name |-> name, malformed |-> malformed]

S720  == RawStream(<<>>, <<>>, Text(<<"Movie", "720p", "x264">>), Text(<<"Torrentio">>), "")
S1080 == RawStream(<<>>, Text(<<"Movie", "1080p", "FRENCH">>), <<>>, Text(<<"Torrentio">>), "")
S4K   == RawStream(Text(<<"Movie", "4k", "MULTI">>), <<>>, <<>>, <<>>, "")
SNoQ  == RawStream(<<>>, <<>>, <<>>, Text(<<"Torrentio">>), "")
SBad  == RawStream(<<>>, <<>>, <<>>, <<>>, "title")
SNull == RawStream(<<>>, <<>>, <<>>, <<>>, "null")
\* A description whose first line is blank, above a title and a name.
SBlank == RawStream(<<>>, <<<<>>, <<"Movie", "1080p", "FRENCH">>>>,
                    Text(<<"Movie", "720p", "x264">>), Text(<<"Torrentio">>), "")

\* data.streams of a 2xx answer whose body parses.
StreamLists ==
    {<<>>, <<S720>>, <<S1080, S1080>>, <<SNoQ, S4K>>, <<SBad>>, <<SNull, S720>>,
     <<SBlank>>}

\* The addons of the user's account that declare the stream resource,
\* as getInstalledAddons maps them (id, types).
\* transportUrl is its path segments: A's ends with the manifest file, B's
\* has none, C's has one that is not at the end.
AddonA == [id |-> "A", types |-> {"movie", "series"},
           transportUrl |-> <<"a.example", "manifest.json">>]
AddonB == [id |-> "B", types |-> {"movie", "series"},
           transportUrl |-> <<"b.example">>]
AddonC == [id |-> "C", types |-> {"series"},
           transportUrl |-> <<"c.example", "manifest.json", "v2">>]
Catalogue == {AddonA, AddonB, AddonC}

\* What the addon directory can answer: the installed addons in any order.
DirectoryLists ==
    {l \in UNION {Perms(S) : S \in SUBSET Catalogue} : Len(l) <= MaxAddons}

\* stremio_selected_addons_<user>: null, or a list of addon ids.
NoSelection == [isnull |-> TRUE, ids |-> {}]
Selection(ids) == [isnull |-> FALSE, ids |-> ids]
Selections == {NoSelection, Selection({}), Selection({"A", "C"})}

\* stream_filter_languages_<user>, stream_filter_resolution_<user>
\* ("" is no minimum).
Prefs(tags, min) == [languageTags |-> tags, minResolution |-> min]
NoPrefs == Prefs({}, "")
FilterChoices ==
    {NoPrefs, Prefs({}, "720p"), Prefs({}, "1080p"), Prefs({}, "4K"),
     Prefs({"FRENCH"}, "")}

\* The media row a probe is handed: kind, external ids (0 is NULL), and
\* whether the owner exists and has a Stremio auth key.
\* episodes: the (season, episode) pairs stored for a series.
ProbeMedia(type, imdb, tmdb) ==
    [type |-> type, imdb_id |-> imdb, tmdb_id |-> tmdb, episodes |-> {}]

WithEpisodes(m, eps) == [m EXCEPT !.episodes = eps]

ProbeInputs ==
    {[media |-> ProbeMedia(t, 1, 1), authKey |-> TRUE, selected |-> sel,
      prefs |-> NoPrefs] : t \in {"movie", "series"}, sel \in Selections}
    \cup
    {[media |-> ProbeMedia("movie", 1, 1), authKey |-> TRUE,
      selected |-> NoSelection, prefs |-> f] : f \in FilterChoices}
    \cup
    {[media |-> ProbeMedia("movie", im, tm), authKey |-> k,
      selected |-> NoSelection, prefs |-> NoPrefs] :
        im \in {0, 1}, tm \in {0, 1}, k \in BOOLEAN}
    \cup
    {[media |-> WithEpisodes(ProbeMedia("series", 1, 1), {<<2, 1>>, <<2, 2>>}),
      authKey |-> TRUE, selected |-> NoSelection, prefs |-> NoPrefs]}

\* ----------------------------------------------------- probe cycle: verdict

NoAddons == <<>>

\* The object a probe returns.  hasAddons is FALSE when the object has no
\* addons property (the short-circuit returns).
Verdict(available, streamCount, reason, hasAddons, addons, lastChecked) ==
    [available |-> available, streamCount |-> streamCount, reason |-> reason,
     hasAddons |-> hasAddons, addons |-> addons, lastChecked |-> lastChecked]

\* Faulty variant of ShortCircuit: the verdict is stamped with the time the
\* process started.
ShortCircuit_StartTime(reason, now) == [available |-> FALSE, streamCount |-> 0,
    reason |-> reason, hasAddons |-> FALSE, addons |-> <<>>, lastChecked |-> 0]

ShortCircuit(reason, now) == Verdict(FALSE, 0, reason, FALSE, NoAddons, now)

\* { available: totalStreams > 0, streamCount: totalStreams,
\*   addons: checkedAddons, lastChecked: now }
FinalVerdict(acc, now) ==
    Verdict(acc.totalStreams > 0, acc.totalStreams, "", TRUE, acc.checkedAddons, now)

EmptyAcc == [totalStreams |-> 0, checkedAddons |-> <<>>]

\* Faulty variant of RestrictToSelection: an empty selection selects
\* nothing.
RestrictToSelection_EmptySelectsNone(addons, selected) ==
    IF ~selected.isnull
    THEN SelectSeq(addons, LAMBDA a : a.id \in selected.ids)
    ELSE addons

\* addons.filter(a => selectedAddonIds.includes(a.id)) when a selection is
\* provided and non-empty.
RestrictToSelection(addons, selected) ==
    IF ~selected.isnull /\ selected.ids # {}
    THEN SelectSeq(addons, LAMBDA a : a.id \in selected.ids)
    ELSE addons

\* streams.slice(0, 10).map(...)
KeptStreams(streams) == SubSeq(streams, 1, Min(Len(streams), MaxStreamsKept))

StreamDetails(streams) ==
    [k \in 1..Len(KeptStreams(streams)) |-> StreamDetail(streams[k])]

MapThrows(streams) == \E k \in 1..Len(KeptStreams(streams)) : Throws(streams[k])

\* The body of `if (response.ok)` once the body has parsed: the debug log
\* of the first stream, then the total is incremented, then the details
\* are mapped; a log that throws lands in the catch with nothing counted,
\* a mapping that throws with the total already incremented.
OnStreams(acc, addon, streams) ==
    IF Len(streams) > 0
    THEN IF LogThrows(streams) THEN acc
         ELSE IF MapThrows(streams)
         THEN [acc EXCEPT !.totalStreams = @ + Len(streams)]
         ELSE [totalStreams |-> acc.totalStreams + Len(streams),
               checkedAddons |-> Append(acc.checkedAddons,
                   [id |-> addon.id, streamCount |-> Len(streams),
                    streams |-> StreamDetails(streams)])]
    ELSE acc


\* ------------------------------------------------------------- media store

NoCheck == -1

\* streams_detail: NULL, or the parsed JSON list.
NullDetail == [isnull |-> TRUE, list |-> <<>>]
Detail(list) == [isnull |-> FALSE, list |-> list]

\* The row INSERT OR REPLACE creates: the availability columns take their
\* defaults (0, 0, NULL, NULL) and watched its default 0.  episodes is the
\* watched column of the rows of the episodes table with this media_id.
NewRow(type, tmdb, imdb, tvdb) ==
    [user_id |-> 1, type |-> type, tmdb_id |-> tmdb, imdb_id |-> imdb,
     tvdb_id |-> tvdb, streams_available |-> FALSE, stream_count |-> 0,
     last_stream_check |-> NoCheck, streams_detail |-> NullDetail,
     watched |-> FALSE, episodes |-> <<>>]

Ids(m) == DOMAIN m

Remove(m, S) == [i \in (DOMAIN m) \ S |-> m[i]]

\* The row object a handler or a task holds on to, with the fields it
\* reads later: the kind, the external ids and the availability columns
\* the recheck pass tests.
Snap(m, id) ==
    [id |-> id,
     row |-> [user_id |-> m[id].user_id, type |-> m[id].type,
              tmdb_id |-> m[id].tmdb_id, imdb_id |-> m[id].imdb_id,
              streams_available |-> m[id].streams_available,
              last_stream_check |-> m[id].last_stream_check]]

\* ORDER BY added_at DESC: rows are added in id order.
RECURSIVE DescList(_)
DescList(S) ==
    IF S = {} THEN <<>>
    ELSE LET x == CHOOSE y \in S : \A z \in S : z <= y
         IN <<x>> \o DescList(S \ {x})

\* getMediaByType(type)
getMediaByType(m, type) == {i \in Ids(m) : m[i].type = type}

\* getMediaByTmdb(type, tmdbId, userId): user_id = ? is never true of a
\* NULL userId (0 here), so only rows without owner match then.
getMediaByTmdb(m, type, tmdb, userId) ==
    {i \in Ids(m) : /\ m[i].type = type
                    /\ m[i].tmdb_id = tmdb
                    /\ ((userId # 0 /\ m[i].user_id = userId) \/ m[i].user_id = 0)}

\* getMediaByAvailability(available): newest first.
getMediaByAvailability(m, available) ==
    DescList({i \in Ids(m) : m[i].streams_available = available})

\* Faulty variant of updateStreamStatus: the flag and the count are written,
\* the check time and the evidence are left for a second statement.
updateStreamStatus_FlagAndCountOnly(m, id, v) ==
    IF id \in Ids(m)
    THEN [m EXCEPT ![id] =
            [@ EXCEPT !.streams_available = v.available,
                      !.stream_count = v.streamCount]]
    ELSE m

\* Faulty variant of updateStreamStatus: a verdict without an evidence list
\* leaves the stored evidence in place.
updateStreamStatus_KeepDetail(m, id, v) ==
    IF id \in Ids(m)
    THEN [m EXCEPT ![id] =
            [@ EXCEPT !.streams_available = v.available,
                      !.stream_count = v.streamCount,
                      !.last_stream_check = v.lastChecked,
                      !.streams_detail = IF v.hasAddons THEN Detail(v.addons)
                                         ELSE @]]
    ELSE m

\* Faulty variant of updateStreamStatus: a verdict for a row that is gone
\* inserts a row for it.
updateStreamStatus_Upsert(m, id, v) ==
    [i \in Ids(m) \cup {id} |->
        [IF i \in Ids(m) THEN m[i] ELSE
            [user_id |-> 1, type |-> "movie", tmdb_id |-> 0, imdb_id |-> 0,
             tvdb_id |-> 0, streams_available |-> FALSE, stream_count |-> 0,
             last_stream_check |-> -1, streams_detail |-> [isnull |-> TRUE, list |-> <<>>],
             watched |-> FALSE, episodes |-> <<>>]
         EXCEPT !.streams_available = IF i = id THEN v.available ELSE @,
                !.stream_count = IF i = id THEN v.streamCount ELSE @,
                !.last_stream_check = IF i = id THEN v.lastChecked ELSE @,
                !.streams_detail = IF i # id THEN @
                                   ELSE IF v.hasAddons
                                   THEN [isnull |-> FALSE, list |-> v.addons]
                                   ELSE [isnull |-> TRUE, list |-> <<>>]]]

\* updateStreamStatus(id, available, streamCount, lastChecked, details):
\* one UPDATE of the four columns; no row, no effect.  An undefined details
\* is stored as NULL, a list (the empty one too) as its JSON.
updateStreamStatus(m, id, v) ==
    IF id \in Ids(m)
    THEN [m EXCEPT ![id] =
            [@ EXCEPT !.streams_available = v.available,
                      !.stream_count = v.streamCount,
                      !.last_stream_check = v.lastChecked,
                      !.streams_detail = IF v.hasAddons THEN Detail(v.addons)
                                         ELSE NullDetail]]
    ELSE m

\* INSERT OR REPLACE INTO media: a row with the same (user_id, type,
\* tmdb_id), tmdb_id not NULL, is deleted and the new row gets a fresh id.
insertMedia(m, id, row) ==
    LET clash == {i \in Ids(m) : /\ row.tmdb_id # 0
                                 /\ m[i].user_id = row.user_id
                                 /\ m[i].type = row.type
                                 /\ m[i].tmdb_id = row.tmdb_id}
        kept == Remove(m, clash)
    IN [i \in (DOMAIN kept) \cup {id} |-> IF i = id THEN row ELSE kept[i]]

\* SELECT * FROM media WHERE type = ? AND watched = 1
getWatchedMediaByType(m, type) == {i \in getMediaByType(m, type) : m[i].watched}

\* getEpisodesWatchedStatus(mediaId): total, watched, and allWatched only
\* with at least one episode.
getEpisodesWatchedStatus(m, id) ==
    LET episodes == m[id].episodes
        total == Len(episodes)
        watched == Len(SelectSeq(episodes, LAMBDA e : e))
    IN [total |-> total, watched |-> watched,
        allWatched |-> total > 0 /\ watched = total]

\* markAsWatched(id, deleteAfter) and markAsUnwatched(id)
markAsWatched(m, id, deleteAfter) ==
    IF deleteAfter THEN Remove(m, {id}) ELSE [m EXCEPT ![id].watched = TRUE]

markAsUnwatched(m, id) == [m EXCEPT ![id].watched = FALSE]

\* markEpisodeWatched(episodeId): the episode n of the series id.
markEpisodeWatched(m, id, n) == [m EXCEPT ![id].episodes[n] = TRUE]

\* Faulty variant of cleanupWatchedContent: a series goes as soon as one of
\* its episodes is watched.
cleanupWatchedContent_AnyEpisode(m, setting) ==
    LET movies == {i \in getWatchedMediaByType(m, "movie") : setting}
        m1 == Remove(m, movies)
        series == {i \in getMediaByType(m1, "series") :
                      getEpisodesWatchedStatus(m1, i).watched > 0 /\ setting}
    IN Remove(m1, series)

\* cleanupWatchedContent(db): the watched movies, then the series whose
\* episodes are all watched, each deleted when its owner's auto_cleanup
\* setting is 'true'.  It has no await: it runs in one turn.
cleanupWatchedContent(m, setting) ==
    LET movies == {i \in getWatchedMediaByType(m, "movie") : setting}
        m1 == Remove(m, movies)
        series == {i \in getMediaByType(m1, "series") :
                      getEpisodesWatchedStatus(m1, i).allWatched /\ setting}
    IN Remove(m1, series)

\* ---------------------------------------------- probe, as one function

\* What the outside answers during one probe: the TMDB and Cinemeta
\* lookups, the addon directory, and each addon's stream query.
Answer(kind, streams) == [kind |-> kind, streams |-> streams]

Outcome(tmdb, cinemeta, dirFails, list, answers) ==
    [tmdb |-> tmdb, cinemeta |-> cinemeta, dirFails |-> dirFails,
     list |-> list, answers |-> answers]

\* One iteration of the loop over the addons, from its end result.
OnAnswer(acc, addon, type, answer) ==
    IF type \notin addon.types THEN acc
    ELSE IF answer.kind = "ok" THEN OnStreams(acc, addon, answer.streams)
    ELSE acc

RECURSIVE RunLoop(_, _, _, _)
RunLoop(acc, addons, type, answers) ==
    IF addons = <<>> THEN acc
    ELSE RunLoop(OnAnswer(acc, Head(addons), type, answers[Head(addons).id]),
                 Tail(addons), type, answers)

\* media.imdb_id after checkStreamsAvailable's TMDB lookup.
ImdbAfterTmdb(row, o) ==
    IF row.imdb_id = 0 /\ row.tmdb_id # 0 /\ o.tmdb THEN 1 ELSE row.imdb_id

\* checkStreamsAvailable(media, db) from the answers of the outside.
checkStreamsAvailable(row, hasKey, selected, o, now) ==
    IF ~hasKey
    THEN ShortCircuit("Owner has no Stremio auth key configured", now)
    ELSE LET imdb == ImdbAfterTmdb(row, o)
             imdbId == IF imdb # 0 THEN imdb
                       ELSE IF row.tmdb_id # 0 /\ o.cinemeta THEN 1 ELSE 0
         IN IF imdbId = 0 THEN ShortCircuit("No IMDB ID", now)
            ELSE IF o.dirFails THEN ShortCircuit("Failed to get addons", now)
            ELSE IF Len(o.list) = 0
            THEN ShortCircuit("No stream addons installed", now)
            ELSE FinalVerdict(
                    RunLoop(EmptyAcc, RestrictToSelection(o.list, selected),
                            row.type, o.answers), now)

AllAnswer(a) == [id \in {"A", "B", "C"} |-> a]

\* The answers a probe of the running system can get.
SysOutcomes ==
    {Outcome(TRUE, TRUE, FALSE, <<AddonA>>, AllAnswer(Answer("ok", <<S720>>))),
     Outcome(TRUE, TRUE, FALSE, <<AddonB, AddonA>>,
             [AllAnswer(Answer("ok", <<>>)) EXCEPT !["B"] = Answer("timeout", <<>>)]),
     Outcome(TRUE, TRUE, FALSE, <<AddonA>>, AllAnswer(Answer("ok", <<SBad>>)))}

\* ------------------------------------------------------- asynchronous tasks

\* recheckUnavailableMedia is started by the two timers and by the WebUI.
PassSources == {"startup", "interval", "checkall"}

\* The sources whose task loops over several items with a pacing delay.
LoopSources == PassSources \cup {"latest"}

\* A task: the rows it holds (as read when it started) and whether it
\* waits for its setImmediate turn, for a probe or for its pacing delay.
Job(src, todo, st) == [src |-> src, todo |-> todo, st |-> st]

\* if (media.last_stream_check) { if (now - lastCheck < RECHECK_INTERVAL) continue; }
Skips(snap, now) ==
    /\ snap.row.last_stream_check # NoCheck
    /\ now - snap.row.last_stream_check < RECHECK_INTERVAL

RECURSIVE SkipChecked(_, _)
SkipChecked(todo, now) ==
    IF todo = <<>> THEN <<>>
    ELSE IF Skips(Head(todo), now) THEN SkipChecked(Tail(todo), now)
    ELSE todo

NoOutcome == Outcome(FALSE, FALSE, TRUE, <<>>, AllAnswer(Answer("neterr", <<>>)))

\* What a step did, for the properties: the ids an endpoint reported as
\* available, the rows a pass skipped, the row a pass started a probe
\* for (with the row's stored state at that moment), which step of
\* which pass did so, and the rows the cleanup of a timer callback deleted
\* (as they were stored, with the owner's setting).
Event(op, ids, src, skipped, probed) ==
    [ids |-> ids, skipped |-> skipped, probed |-> probed,
     op |-> IF skipped = {} /\ probed = {} THEN "" ELSE op,
     src |-> IF skipped = {} /\ probed = {} THEN "" ELSE src,
     recorded |-> {}, notified |-> {}, failed |-> {}, cleaned |-> {},
     late |-> {}]

\* The verdict a step stored with updateStreamStatus, for the properties:
\* the row it was stored for, the task that stored it and the row's
\* flag and evidence before; nothing when the row is gone (the UPDATE
\* matches no row).
Write(m, id, v, job) ==
    IF id \in Ids(m)
    THEN {[id |-> id, src |-> job.src, v |-> v, was |-> m[id].streams_available,
           had |-> m[id].streams_detail, before |-> m[id].last_stream_check]}
    ELSE {}

\* The row a probe ended for after it was deleted, for the properties:
\* its UPDATE matched no row.
Late(m, id) == IF id \in Ids(m) THEN {} ELSE {id}

\* Faulty variant of Notifies: every stored positive verdict notifies.
Notifies_OnEveryVerdict(job, snap, v) == v.available

\* notifyMediaAvailable(media): called by the probe that POST /api/v3/movie
\* leaves to setImmediate, when its verdict is available; the probe that
\* POST /api/v3/series starts has no such call, nor has any other caller
\* of checkStreamsAvailable.
Notifies(job, snap, v) ==
    job.src = "add" /\ snap.row.type = "movie" /\ v.available

\* The calls of notifyMediaAvailable a step makes, for the properties:
\* the row, the task that called and its verdict.
Notified(job, snap, v) ==
    IF Notifies(job, snap, v)
    THEN {[id |-> snap.id, src |-> job.src, available |-> v.available]}
    ELSE {}

NoEvent == Event("", {}, "", {}, {})

ProbeStart(m, snap, now) ==
    [id |-> snap.id,
     snapAvailable |-> snap.row.streams_available,
     snapCheck |-> snap.row.last_stream_check,
     storedCheck |-> IF snap.id \in Ids(m) THEN m[snap.id].last_stream_check
                     ELSE NoCheck,
     storedAvailable |-> snap.id \in Ids(m) /\ m[snap.id].streams_available]

\* Per id: whether a positive verdict was ever stored for it, and whether
\* its latest verdict was stored by a pass of the background checker.
NoHistory == [positive |-> FALSE, sched |-> FALSE]

\* hist once updateStreamStatus has run for a verdict.
Recorded(h, m, id, v, job) ==
    IF id \in Ids(m)
    THEN [h EXCEPT ![id] = [positive |-> @.positive \/ v.available,
                            sched |-> job.src \in {"startup", "interval"}]]
    ELSE h

\* A task runs from the item at the head of its list up to its first
\* await that yields: a pass skips the recently checked rows; the probe of
\* the next row is started; without an auth key the probe returns in the
\* same turn and the verdict is stored at once.
Run(m, h, job, key, now) ==
    LET todo == IF job.src \in PassSources THEN SkipChecked(job.todo, now)
                ELSE job.todo
        skipped == {job.todo[k].id : k \in 1..(Len(job.todo) - Len(todo))}
    IN IF todo = <<>>
       THEN [m |-> m, h |-> h, jobs |-> <<>>, skipped |-> skipped, probed |-> {},
             recorded |-> {}, notified |-> {}]
       ELSE LET snap == Head(todo)
                v == checkStreamsAvailable(snap.row, FALSE, NoSelection, NoOutcome, now)
                probed == IF job.src \in PassSources THEN {ProbeStart(m, snap, now)}
                          ELSE {}
            IN IF key
               THEN [m |-> m, h |-> h,
                     jobs |-> <<Job(job.src, todo, "probing")>>,
                     skipped |-> skipped, probed |-> probed,
                     recorded |-> {}, notified |-> {}]
               ELSE [m |-> updateStreamStatus(m, snap.id, v),
                     h |-> Recorded(h, m, snap.id, v, job),
                     jobs |-> IF job.src \in LoopSources
                              THEN <<Job(job.src, todo, "delay")>>
                              ELSE <<>>,
                     skipped |-> skipped, probed |-> probed,
                     recorded |-> Write(m, snap.id, v, job),
                     notified |-> Notified(job, snap, v)]

RemoveAt(s, j) == SubSeq(s, 1, j - 1) \o SubSeq(s, j + 1, Len(s))

\* The users table once the database module is loaded: the default
\* administrator 'admin' is inserted when no user has that name.
UserRow(username, password, isAdmin) ==
    [username |-> username, password_hash |-> password, is_admin |-> isAdmin]

DefaultUsers == [rows |-> <<UserRow("admin", "changeme", TRUE)>>, next |-> 2]

\* The state after startup: an empty media table, both timers of
\* startBackgroundChecker armed; the owner's Stremio key is a column of
\* the users table, which outlives the process.
InitSys ==
    /\ media = <<>>
    /\ nextId = 1
    /\ authKey \in BOOLEAN
    /\ clock = 0
    /\ advances = 0
    /\ requests = 0
    /\ startupPending = TRUE
    /\ nextInterval = RECHECK_INTERVAL
    /\ jobs = <<>>
    /\ running = TRUE
    /\ extra = <<>>
    /\ autoCleanup = FALSE
    /\ users = DefaultUsers
    /\ ev = NoEvent
    /\ hist = [i \in 1..MaxItems |-> NoHistory]

\* ------------------------------------------------------- probe cycle: steps
\* One cycle of checkStreamsAvailable -> checkStreamsWithUserAddons, one
\* step per await.  cyc.seen is the record of the addon queries that ended,
\* cyc.dirCalls counts the calls of getInstalledAddons, cyc.dir is what
\* the call answered, cyc.sent lists the stream requests sent and
\* cyc.lookups the metadata services asked for the imdb id (history, for
\* the properties); everything else is
\* the cycle's own state.

\* History, for the properties: how getInstalledAddons ended.
DirAnswer(kind, list) == [kind |-> kind, list |-> list]
NoDirAnswer == DirAnswer("", <<>>)

NewCycle(in) ==
    [pc |-> "start", media |-> in.media, authKey |-> in.authKey,
     selected |-> in.selected, prefs |-> in.prefs,
     imdbId |-> 0, addons |-> <<>>, listed |-> FALSE, i |-> 1,
     acc |-> EmptyAcc, timer |-> FALSE, seen |-> <<>>,
     dirCalls |-> 0, dir |-> NoDirAnswer, sent |-> <<>>, lookups |-> <<>>,
     result |-> ShortCircuit("", 0)]

\* if (baseUrl.endsWith('/manifest.json')) baseUrl = baseUrl.slice(0, -13)
BaseUrl(transportUrl) ==
    IF Len(transportUrl) > 0 /\ transportUrl[Len(transportUrl)] = "manifest.json"
    THEN SubSeq(transportUrl, 1, Len(transportUrl) - 1)
    ELSE transportUrl

\* Faulty variant of StreamId: a series is asked for by its first stored
\* episode.
StreamId_FirstStored(item, imdbId) ==
    IF item.type = "series" /\ item.episodes # {}
    THEN LET e == CHOOSE x \in item.episodes :
                      \A y \in item.episodes :
                          x[1] < y[1] \/ (x[1] = y[1] /\ x[2] <= y[2])
         IN <<imdbId, e[1], e[2]>>
    ELSE IF item.type = "series" THEN <<imdbId, 1, 1>>
    ELSE <<imdbId>>

\* streamId = type === 'series' ? `${imdbId}:1:1` : imdbId (its parts)
StreamId(item, imdbId) ==
    IF item.type = "movie" THEN <<imdbId>> ELSE <<imdbId, 1, 1>>

\* `${baseUrl}/stream/${type}/${streamId}.json`, with the addon it is for.
StreamUrl(addon, item, imdbId) ==
    [id |-> addon.id, base |-> BaseUrl(addon.transportUrl),
     type |-> IF item.type = "movie" THEN "movie" ELSE "series",
     key |-> StreamId(item, imdbId)]

Seen(addon, kind, streams) == [id |-> addon.id, kind |-> kind, streams |-> streams]

Return(c, verdict) == [c EXCEPT !.pc = "done", !.result = verdict]

\* Faulty variant of NextAddon: a failed query ends the loop.
NextAddon_AbortOnFailure(c, kind, streams, acc) ==
    [c EXCEPT !.pc = "loop", !.timer = FALSE, !.acc = acc,
              !.i = IF kind = "ok" THEN @ + 1 ELSE Len(c.addons) + 1,
              !.seen = Append(@, Seen(c.addons[c.i], kind, streams))]

\* The end of one iteration of `for (const addon of addons)`, reached from
\* the if/else on response.ok and from the catch alike.
NextAddon(c, kind, streams, acc) ==
    [c EXCEPT !.pc = "loop", !.timer = FALSE, !.acc = acc, !.i = @ + 1,
              !.seen = Append(@, Seen(c.addons[c.i], kind, streams))]

\* Faulty variant of CSA_Begin: the imdb id is looked up before the
\* owner's auth key is tested.
CSA_Begin_LookupFirst ==
    /\ UNCHANGED sysvars
    /\ cyc.pc = "start"
    /\ cyc' = IF cyc.media.imdb_id = 0 /\ cyc.media.tmdb_id # 0
              THEN [cyc EXCEPT !.pc = "tmdb", !.lookups = Append(@, "tmdb")]
              ELSE IF ~cyc.authKey
              THEN Return(cyc, ShortCircuit("Owner has no Stremio auth key configured", 0))
              ELSE [cyc EXCEPT !.pc = "resolve"]

\* checkStreamsAvailable up to its first await: the owner's auth key, then
\* the TMDB lookup when the row has a tmdb id and no imdb id.
CSA_Begin ==
    /\ UNCHANGED sysvars
    /\ cyc.pc = "start"
    /\ cyc' = IF ~cyc.authKey
              THEN Return(cyc, ShortCircuit("Owner has no Stremio auth key configured", 0))
              ELSE IF cyc.media.imdb_id = 0 /\ cyc.media.tmdb_id # 0
              THEN [cyc EXCEPT !.pc = "tmdb", !.lookups = Append(@, "tmdb")]
              ELSE [cyc EXCEPT !.pc = "resolve"]

\* Faulty variant of CSA_TmdbDetails: the id TMDB gives is stored but this
\* probe goes on to ask Cinemeta for its own.
CSA_TmdbDetails_StoredNotUsed ==
    /\ UNCHANGED sysvars
    /\ cyc.pc = "tmdb"
    /\ \E found \in BOOLEAN :
         cyc' = [cyc EXCEPT !.pc = "cinemeta", !.lookups = Append(@, "cinemeta"),
                            !.media.imdb_id = IF found THEN 1 ELSE @]

\* getTMDBDetails answers: with an imdb id (written onto the media object)
\* or without one / with an error.
CSA_TmdbDetails ==
    /\ UNCHANGED sysvars
    /\ cyc.pc = "tmdb"
    /\ \E found \in BOOLEAN :
         cyc' = [cyc EXCEPT !.pc = "resolve",
                            !.media.imdb_id = IF found THEN 1 ELSE @]

\* checkStreamsWithUserAddons up to the Cinemeta lookup or the first return.
CSW_Resolve ==
    /\ UNCHANGED sysvars
    /\ cyc.pc = "resolve"
    /\ cyc' = IF cyc.media.imdb_id # 0
              THEN [cyc EXCEPT !.pc = "list", !.imdbId = cyc.media.imdb_id,
                               !.dirCalls = @ + 1]
              ELSE IF cyc.media.tmdb_id # 0
              THEN [cyc EXCEPT !.pc = "cinemeta", !.lookups = Append(@, "cinemeta")]
              ELSE Return(cyc, ShortCircuit("No IMDB ID", 0))

\* Faulty variant of CSW_Cinemeta: without an id the probe goes on to the
\* addon directory.
CSW_Cinemeta_ListWithoutId ==
    /\ UNCHANGED sysvars
    /\ cyc.pc = "cinemeta"
    /\ \E found \in BOOLEAN :
         cyc' = [cyc EXCEPT !.pc = "list", !.imdbId = IF found THEN 1 ELSE 0,
                            !.dirCalls = @ + 1]

\* getImdbIdFromTmdb answers: an id, or null.
CSW_Cinemeta ==
    /\ UNCHANGED sysvars
    /\ cyc.pc = "cinemeta"
    /\ \E found \in BOOLEAN :
         cyc' = IF found
                THEN [cyc EXCEPT !.pc = "list", !.imdbId = 1, !.dirCalls = @ + 1]
                ELSE Return(cyc, ShortCircuit("No IMDB ID", 0))

\* Faulty variant of CSW_ListFails: the directory is asked a second time.
CSW_ListFails_Retry ==
    /\ UNCHANGED sysvars
    /\ cyc.pc = "list"
    /\ cyc' = IF cyc.dirCalls < 2
              THEN [cyc EXCEPT !.dirCalls = @ + 1]
              ELSE Return([cyc EXCEPT !.dir = DirAnswer("error", <<>>)],
                          ShortCircuit("Failed to get addons", 0))

\* getInstalledAddons throws.
CSW_ListFails ==
    /\ UNCHANGED sysvars
    /\ cyc.pc = "list"
    /\ cyc' = Return([cyc EXCEPT !.dir = DirAnswer("error", <<>>)],
                     ShortCircuit("Failed to get addons", 0))

\* getInstalledAddons answers a list; an empty one ends the probe, any
\* other is restricted to the selection and the loop starts.
CSW_ListAddons ==
    /\ UNCHANGED sysvars
    /\ cyc.pc = "list"
    /\ \E l \in DirectoryLists :
         cyc' = IF Len(l) = 0
                THEN Return([cyc EXCEPT !.dir = DirAnswer("list", l)],
                            ShortCircuit("No stream addons installed", 0))
                ELSE [cyc EXCEPT !.pc = "loop", !.listed = TRUE, !.i = 1,
                                 !.dir = DirAnswer("list", l),
                                 !.addons = RestrictToSelection(l, cyc.selected)]

\* if (!addon.types.includes(type)) continue;
Loop_SkipType ==
    /\ UNCHANGED sysvars
    /\ cyc.pc = "loop"
    /\ cyc.i <= Len(cyc.addons)
    /\ cyc.media.type \notin cyc.addons[cyc.i].types
    /\ cyc' = [cyc EXCEPT !.i = @ + 1]

\* Faulty variant of Loop_Fetch: the addon is queried whatever its types.
Loop_Fetch_AnyType ==
    /\ UNCHANGED sysvars
    /\ cyc.pc = "loop"
    /\ cyc.i <= Len(cyc.addons)
    /\ cyc' = [cyc EXCEPT !.pc = "headers", !.timer = TRUE,
                          !.sent = Append(@, StreamUrl(cyc.addons[cyc.i], cyc.media,
                                                       cyc.imdbId))]

\* setTimeout(() => controller.abort(), 10000); await fetch(streamUrl, ...)
Loop_Fetch ==
    /\ UNCHANGED sysvars
    /\ cyc.pc = "loop"
    /\ cyc.i <= Len(cyc.addons)
    /\ cyc.media.type \in cyc.addons[cyc.i].types
    /\ cyc' = [cyc EXCEPT !.pc = "headers", !.timer = TRUE,
                          !.sent = Append(@, StreamUrl(cyc.addons[cyc.i], cyc.media,
                                                       cyc.imdbId))]

\* The 10 s timer fires while the fetch is pending: the fetch rejects and
\* the catch skips the addon.
Fetch_Timeout ==
    /\ UNCHANGED sysvars
    /\ cyc.pc = "headers"
    /\ cyc.timer
    /\ cyc' = NextAddon(cyc, "timeout", <<>>, cyc.acc)

\* The fetch rejects by itself (connection error).
Fetch_Error ==
    /\ UNCHANGED sysvars
    /\ cyc.pc = "headers"
    /\ cyc' = NextAddon(cyc, "neterr", <<>>, cyc.acc)

\* The response headers arrive with a non-2xx status: clearTimeout, log.
Fetch_NotOk ==
    /\ UNCHANGED sysvars
    /\ cyc.pc = "headers"
    /\ cyc' = NextAddon(cyc, "non2xx", <<>>, cyc.acc)

\* The response headers arrive with a 2xx status: clearTimeout(timeout),
\* then await response.json(), which no timer covers any more.
Fetch_Ok ==
    /\ UNCHANGED sysvars
    /\ cyc.pc = "headers"
    /\ cyc' = [cyc EXCEPT !.pc = "body", !.timer = FALSE]

\* The body arrives but is not JSON: response.json() rejects.
Body_Invalid ==
    /\ UNCHANGED sysvars
    /\ cyc.pc = "body"
    /\ cyc' = NextAddon(cyc, "badjson", <<>>, cyc.acc)

\* The body arrives and parses.
Body_Parsed ==
    /\ UNCHANGED sysvars
    /\ cyc.pc = "body"
    /\ \E streams \in StreamLists :
         cyc' = NextAddon(cyc, "ok", streams,
                          OnStreams(cyc.acc, cyc.addons[cyc.i], streams))

\* After the loop: the verdict.
Loop_Return ==
    /\ UNCHANGED sysvars
    /\ cyc.pc = "loop"
    /\ cyc.i > Len(cyc.addons)
    /\ cyc' = Return(cyc, FinalVerdict(cyc.acc, 0))

\* The steps the process takes by itself (continuations and its own timer),
\* as opposed to the answers of the outside services.
ProgramStep ==
    \/ CSA_Begin
    \/ CSW_Resolve
    \/ Loop_SkipType
    \/ Loop_Fetch
    \/ Fetch_Timeout
    \/ Loop_Return

InitProbe == cyc \in {NewCycle(in) : in \in ProbeInputs} /\ InitSys /\ ~authKey

NextProbe ==
    \/ CSA_Begin
    \/ CSA_TmdbDetails
    \/ CSW_Resolve
    \/ CSW_Cinemeta
    \/ CSW_ListFails
    \/ CSW_ListAddons
    \/ Loop_SkipType
    \/ Loop_Fetch
    \/ Fetch_Timeout
    \/ Fetch_Error
    \/ Fetch_NotOk
    \/ Fetch_Ok
    \/ Body_Invalid
    \/ Body_Parsed
    \/ Loop_Return

SpecProbe == InitProbe /\ [][NextProbe]_vars


\* The event loop runs every ready continuation and every due timer; no
\* outside service is assumed to answer.
FairProbe == SpecProbe /\ WF_vars(ProgramStep)

\* ------------------------------------------------------ the running system

\* The media table once the caller of recheckUnavailableMedia has ended
\* its turn: the two timer callbacks go on with cleanupWatchedContent.
AfterCleanup(src) ==
    IF src \in {"startup", "interval"}
    THEN cleanupWatchedContent(media, autoCleanup)
    ELSE media

\* The rows the cleanup of this turn deletes.
Cleaned(src) ==
    {[id |-> i, row |-> media[i], setting |-> autoCleanup] :
        i \in Ids(media) \ Ids(AfterCleanup(src))}

\* Finishing a step of the system: the tables, the tasks and the event.
Commit(r, otherJobs, op, ids, src) ==
    /\ media' = r.m
    /\ hist' = r.h
    /\ jobs' = otherJobs \o r.jobs
    /\ ev' = [Event(op, ids, src, r.skipped, r.probed)
                 EXCEPT !.recorded = r.recorded, !.notified = r.notified,
                        !.cleaned = Cleaned(src)]

\* The pending setImmediate callbacks run at the end of the event-loop turn
\* that queued them, before the next request, timer or answer is handled.
NoneQueued == \A j \in 1..Len(jobs) : jobs[j].st # "queued"

\* auth/session.js: the owner logs in to Stremio or disconnects.
SetStremioKey ==
    /\ running
    /\ NoneQueued
    /\ requests < MaxRequests
    /\ requests' = requests + 1
    /\ \E k \in BOOLEAN : k # authKey /\ authKey' = k
    /\ ev' = NoEvent
    /\ UNCHANGED <<cyc, users, autoCleanup, running, extra, media, nextId, clock, advances, startupPending,
                   nextInterval, jobs, hist>>

toRadarrMovie(row) == [hasFile |-> row.streams_available]

\* POST /api/v3/movie: an existing row is looked up without a user id; a
\* new row is inserted for user 1 and its probe is left to setImmediate.
AddMovie ==
    /\ running
    /\ NoneQueued
    /\ nextId <= MaxItems
    /\ Len(jobs) < MaxJobs
    /\ \E tmdb \in {1}, imdb \in {0} :
         LET existing == getMediaByTmdb(media, "movie", tmdb, 0)
             m2 == insertMedia(media, nextId, NewRow("movie", tmdb, imdb, 0))
         IN IF existing # {}
            THEN /\ ev' = Event("", {i \in existing : toRadarrMovie(media[i]).hasFile},
                                "", {}, {})
                 /\ UNCHANGED <<media, nextId, jobs>>
            ELSE /\ media' = m2
                 /\ nextId' = nextId + 1
                 /\ jobs' = Append(jobs, Job("add", <<Snap(m2, nextId)>>, "queued"))
                 /\ ev' = Event("", {i \in {nextId} : toRadarrMovie(m2[i]).hasFile},
                                "", {}, {})
    /\ UNCHANGED <<cyc, users, autoCleanup, running, extra, requests, authKey, clock, advances, startupPending,
                   nextInterval, hist>>

\* POST /api/v3/series: an existing series is found by its tvdb id.
AddSeries ==
    /\ running
    /\ NoneQueued
    /\ nextId <= MaxItems
    /\ Len(jobs) < MaxJobs
    /\ \E tvdb \in {1} :
         LET existing == {i \in getMediaByType(media, "series") :
                              media[i].tvdb_id = tvdb}
             m2 == insertMedia(media, nextId, NewRow("series", 2, 1, tvdb))
         IN IF existing # {}
            THEN UNCHANGED <<media, nextId, jobs>>
            ELSE /\ media' = m2
                 /\ nextId' = nextId + 1
                 /\ jobs' = Append(jobs, Job("add", <<Snap(m2, nextId)>>, "queued"))
    /\ ev' = NoEvent
    /\ UNCHANGED <<cyc, users, autoCleanup, running, extra, requests, authKey, clock, advances, startupPending,
                   nextInterval, hist>>

\* DELETE /api/media/:id, DELETE /api/v3/movie/:id, DELETE /api/v3/series/:id
DeleteMedia ==
    /\ running
    /\ NoneQueued
    /\ requests < MaxRequests
    /\ requests' = requests + 1
    /\ \E id \in Ids(media) : media' = Remove(media, {id})
    /\ ev' = NoEvent
    /\ UNCHANGED <<cyc, users, autoCleanup, running, extra, nextId, authKey, clock, advances, startupPending,
                   nextInterval, jobs, hist>>

\* POST /api/media/:id/check-streams
ManualCheck ==
    /\ running
    /\ NoneQueued
    /\ requests < MaxRequests
    /\ requests' = requests + 1
    /\ Len(jobs) < MaxJobs
    /\ \E id \in Ids(media) :
         Commit(Run(media, hist, Job("manual", <<Snap(media, id)>>, "probing"),
                    authKey, clock),
                jobs, "CheckStreams", {}, "manual")
    /\ UNCHANGED <<cyc, users, autoCleanup, running, extra, nextId, authKey, clock, advances, startupPending,
                   nextInterval>>

\* Faulty variant of StartPass: a row with a probe in flight is left out.
StartPass_SkipInFlight(src) ==
    LET busy == {Head(jobs[j].todo).id :
                    j \in {n \in 1..Len(jobs) : jobs[n].st = "probing"}}
        rows == SelectSeq(getMediaByAvailability(media, FALSE),
                          LAMBDA i : i \notin busy)
    IN Run(AfterCleanup(src), hist,
           Job(src, [k \in 1..Len(rows) |-> Snap(media, rows[k])], "probing"),
           authKey, clock)

\* recheckUnavailableMedia(db) up to its first await that yields.  A timer
\* callback calls cleanupWatchedContent(db) right after it, in the same
\* turn: the pass holds the rows it read before the cleanup, and nothing
\* it stores is stored before the cleanup has run.
StartPass(src) ==
    Run(AfterCleanup(src), hist,
        Job(src, [k \in 1..Len(getMediaByAvailability(media, FALSE)) |->
                     Snap(media, getMediaByAvailability(media, FALSE)[k])],
            "probing"),
        authKey, clock)

\* POST /api/check-all-streams
CheckAll ==
    /\ running
    /\ NoneQueued
    /\ requests < MaxRequests
    /\ requests' = requests + 1
    /\ Len(jobs) < MaxJobs
    /\ Commit(StartPass("checkall"), jobs, "CheckAll", {}, "checkall")
    /\ UNCHANGED <<cyc, users, autoCleanup, running, extra, nextId, authKey, clock, advances, startupPending,
                   nextInterval>>

\* The setTimeout callback of startBackgroundChecker: the pass, then
\* the cleanup.
StartupTick ==
    /\ startupPending
    /\ clock = STARTUP_DELAY
    /\ running
    /\ NoneQueued
    /\ Len(jobs) < MaxJobs
    /\ startupPending' = FALSE
    /\ Commit(StartPass("startup"), jobs, "StartupTick", {}, "startup")
    /\ UNCHANGED <<cyc, users, autoCleanup, running, extra, requests, nextId, authKey, clock, advances, nextInterval>>

\* The setInterval callback of startBackgroundChecker.
IntervalTick ==
    /\ clock = nextInterval
    /\ running
    /\ NoneQueued
    /\ Len(jobs) < MaxJobs
    /\ nextInterval' = nextInterval + RECHECK_INTERVAL
    /\ Commit(StartPass("interval"), jobs, "IntervalTick", {}, "interval")
    /\ UNCHANGED <<cyc, users, autoCleanup, running, extra, requests, nextId, authKey, clock, advances, startupPending>>

\* A timer of a further call of startBackgroundChecker is due.
ExtraDue ==
    \E k \in 1..Len(extra) :
        \/ extra[k].startupPending /\ clock >= STARTUP_DELAY
        \/ clock >= extra[k].nextInterval

\* The next timer of the background checker.
NextDue == IF startupPending THEN STARTUP_DELAY ELSE nextInterval

\* Time passes until the next timer of the background checker is due.
\* A setImmediate callback and a pacing delay (1 s, 500 ms) run before
\* that; a probe may take that long.
Advance ==
    /\ running
    /\ advances < MaxAdvances
    /\ clock < NextDue
    /\ ~ExtraDue
    /\ \A j \in 1..Len(jobs) : jobs[j].st = "probing"
    /\ clock' = NextDue
    /\ advances' = advances + 1
    /\ ev' = NoEvent
    /\ UNCHANGED <<cyc, users, autoCleanup, running, extra, requests, media, nextId, authKey, startupPending, nextInterval,
                   jobs, hist>>

\* Faulty variant of ProbeDone: a looping task goes on to its next row in
\* the step that stores the verdict, without the pacing delay.
ProbeDone_NoDelay ==
    /\ running
    /\ NoneQueued
    /\ \E j \in 1..Len(jobs), o \in SysOutcomes :
         LET job == jobs[j]
             snap == Head(job.todo)
             v == checkStreamsAvailable(snap.row, TRUE, NoSelection, o, clock)
         IN /\ job.st = "probing"
            /\ media' = updateStreamStatus(media, snap.id, v)
            /\ hist' = Recorded(hist, media, snap.id, v, job)
            /\ jobs' = IF job.src \in LoopSources /\ Len(job.todo) > 1
                       THEN [jobs EXCEPT ![j].todo = Tail(@)]
                       ELSE RemoveAt(jobs, j)
            /\ ev' = [NoEvent EXCEPT !.recorded = Write(media, snap.id, v, job),
                                     !.notified = Notified(job, snap, v)]
    /\ UNCHANGED <<cyc, users, autoCleanup, running, extra, requests, nextId, authKey, clock, advances,
                   startupPending, nextInterval>>

\* The probe a task awaits returns and the task stores the verdict:
\* UPDATE media SET imdb_id (when TMDB gave one), then updateStreamStatus.
\* A looping task then waits for its pacing delay; the others end.
ProbeDone ==
    /\ running
    /\ NoneQueued
    /\ \E j \in 1..Len(jobs), o \in SysOutcomes :
         LET job == jobs[j]
             snap == Head(job.todo)
             v == checkStreamsAvailable(snap.row, TRUE, NoSelection, o, clock)
             m1 == IF snap.id \in Ids(media)
                   THEN [media EXCEPT ![snap.id].imdb_id = ImdbAfterTmdb(snap.row, o)]
                   ELSE media
         IN /\ job.st = "probing"
            /\ media' = updateStreamStatus(m1, snap.id, v)
            /\ hist' = Recorded(hist, media, snap.id, v, job)
            /\ jobs' = IF job.src \in LoopSources
                       THEN [jobs EXCEPT ![j].st = "delay"]
                       ELSE RemoveAt(jobs, j)
            /\ ev' = [NoEvent EXCEPT !.recorded = Write(media, snap.id, v, job),
                                     !.notified = Notified(job, snap, v),
                                     !.late = Late(media, snap.id)]
    /\ UNCHANGED <<cyc, users, autoCleanup, running, extra, requests, nextId, authKey, clock, advances, startupPending,
                   nextInterval>>

\* The pacing delay of a looping task ends: on to the next row.
DelayDone ==
    /\ running
    /\ NoneQueued
    /\ \E j \in 1..Len(jobs) :
         /\ jobs[j].st = "delay"
         /\ Commit(Run(media, hist, [jobs[j] EXCEPT !.todo = Tail(@)], authKey, clock),
                   RemoveAt(jobs, j), "DelayDone", {}, jobs[j].src)
    /\ UNCHANGED <<cyc, users, autoCleanup, running, extra, requests, nextId, authKey, clock, advances, startupPending,
                   nextInterval>>

\* The item a task is on fails: a statement of the store throws while the
\* item is probed or its verdict written (db.getSetting, JSON.parse of the
\* stored addon selection, db.updateStreamStatus).  Nothing is stored.
\* The handlers of the add probe and of the manual check catch it and
\* end; the Latest re-verification catches it inside its loop and goes on
\* to its pacing delay; recheckUnavailableMedia has no try around the
\* item, so the pass ends there: its promise is rejected, which the WebUI
\* logs (.catch) and which, from the two timers, nothing handles: the
\* process exits on the unhandled rejection.
Failure(job) ==
    [id |-> Head(job.todo).id, src |-> job.src,
     rest |-> {job.todo[k].id : k \in 2..Len(job.todo)}]

ProbeThrows ==
    /\ running
    /\ NoneQueued
    /\ requests < MaxRequests
    /\ requests' = requests + 1
    /\ \E j \in 1..Len(jobs) :
         LET job == jobs[j]
         IN /\ job.st = "probing"
            /\ ev' = [NoEvent EXCEPT !.failed = {Failure(job)}]
            /\ running' = (job.src \notin {"startup", "interval"})
            /\ jobs' = IF job.src \in {"startup", "interval"} THEN <<>>
                       ELSE IF job.src = "latest" THEN [jobs EXCEPT ![j].st = "delay"]
                       ELSE RemoveAt(jobs, j)
    /\ UNCHANGED <<cyc, users, autoCleanup, extra, media, nextId, authKey, clock, advances,
                   startupPending, nextInterval, hist>>

\* A setImmediate callback runs: the task starts on its first row.
RunImmediate ==
    /\ running
    /\ \E j \in 1..Len(jobs) :
         /\ jobs[j].st = "queued"
         /\ Commit(Run(media, hist, jobs[j], authKey, clock),
                   RemoveAt(jobs, j), "RunImmediate", {}, jobs[j].src)
    /\ UNCHANGED <<cyc, users, autoCleanup, running, extra, requests, nextId, authKey, clock, advances, startupPending,
                   nextInterval>>

\* ---------------------------------------------------------- emulated APIs

Kinds == {"movie", "series"}

\* Faulty variant of Available: every row passes.
Available_All(m, S) == S

\* .filter(m => m.streams_available)
Available(m, S) == {i \in S : m[i].streams_available}

\* GET /Items?ids=...: the rows of the requested ids whose kind matches
\* and that have streams available.
ItemsByIds(m, req) ==
    Available(m, {r.id : r \in {q \in req : q.id \in Ids(m) /\ m[q.id].type = q.type}})

\* GET /Items and GET /Users/:userId/Items for one library.
ItemsOfLibrary(m, type) == Available(m, getMediaByType(m, type))

Take(s, n) == SubSeq(s, 1, Min(Len(s), n))

Range(s) == {s[k] : k \in 1..Len(s)}

\* GET /Items/Latest: per kind the newest `limit` available rows, then the
\* newest `limit` of both.
LatestOfKind(m, type, limit) == Take(DescList(Available(m, getMediaByType(m, type))), limit)

LatestItems(m, limit) ==
    Take(DescList(Range(LatestOfKind(m, "movie", limit))
                  \cup Range(LatestOfKind(m, "series", limit))), limit)

\* if (Date.now() - lastCheck > REVERIFY_INTERVAL) mediaToReverify.push(m):
\* lastCheck is the epoch (0) for a NULL last_stream_check, which is more
\* than an hour before any Date.now().
NeedsReverify(row, now) ==
    \/ row.last_stream_check = NoCheck
    \/ now - row.last_stream_check > REVERIFY_INTERVAL

mediaToReverify(m, limit, now) ==
    SelectSeq(LatestOfKind(m, "movie", limit) \o LatestOfKind(m, "series", limit),
              LAMBDA i : NeedsReverify(m[i], now))

Requests == {[type |-> t, id |-> i] : t \in Kinds, i \in 1..MaxItems}

\* What an endpoint that only reads leaves alone.
readvars == <<cyc, users, autoCleanup, running, extra, media, nextId, authKey, clock, advances, requests,
              startupPending, nextInterval, jobs, hist>>

\* GET /Items: by ids, or one library.
GetItems ==
    /\ running
    /\ NoneQueued
    /\ \/ \E t \in Kinds :
            ev' = Event("", ItemsByIds(media, {q \in Requests : q.type = t}), "", {}, {})
       \/ \E t \in Kinds : ev' = Event("", ItemsOfLibrary(media, t), "", {}, {})
    /\ UNCHANGED readvars

\* GET /Users/:userId/Items
GetUserItems ==
    /\ running
    /\ NoneQueued
    /\ \E t \in Kinds : ev' = Event("", ItemsOfLibrary(media, t), "", {}, {})
    /\ UNCHANGED readvars

\* GET /Users/:userId/Items/:itemId: 404 unless the row is available.
GetUserItemById ==
    /\ running
    /\ NoneQueued
    /\ \E q \in Requests : ev' = Event("", ItemsByIds(media, {q}), "", {}, {})
    /\ UNCHANGED readvars

\* GET /api/v3/movie and GET /api/v3/movie/:id: hasFile per movie.
RadarrGetMovies ==
    /\ running
    /\ NoneQueued
    /\ ev' = Event("", {i \in getMediaByType(media, "movie") :
                        toRadarrMovie(media[i]).hasFile}, "", {}, {})
    /\ UNCHANGED readvars

\* GET /Items/Latest: the answer, then the re-verification of the rows
\* last checked more than an hour ago is left to setImmediate.
GetItemsLatest ==
    /\ running
    /\ NoneQueued
    /\ \E limit \in {1, 16} :
         LET todo == mediaToReverify(media, limit, clock)
         IN /\ (todo = <<>> \/ (Len(jobs) < MaxJobs /\ requests < MaxRequests))
            /\ jobs' = IF todo = <<>> THEN jobs
                       ELSE Append(jobs, Job("latest",
                                [k \in 1..Len(todo) |-> Snap(media, todo[k])], "queued"))
            /\ requests' = IF todo = <<>> THEN requests ELSE requests + 1
            /\ ev' = [Event("", Range(LatestItems(media, limit)), "", {}, {})
                         EXCEPT !.op = "GetItemsLatest"]
    /\ UNCHANGED <<cyc, users, autoCleanup, running, extra, media, nextId, authKey, clock, advances,
                   startupPending, nextInterval, hist>>

IdleCycle == NewCycle([media |-> ProbeMedia("movie", 1, 1), authKey |-> TRUE,
                       selected |-> NoSelection, prefs |-> NoPrefs])

Init == cyc = IdleCycle /\ InitSys

Next ==
    \/ SetStremioKey
    \/ AddMovie
    \/ AddSeries
    \/ DeleteMedia
    \/ ManualCheck
    \/ CheckAll
    \/ StartupTick
    \/ IntervalTick
    \/ Advance
    \/ ProbeDone
    \/ DelayDone
    \/ RunImmediate
    \/ ProbeThrows
    \/ GetItems
    \/ GetUserItems
    \/ GetUserItemById
    \/ RadarrGetMovies
    \/ GetItemsLatest

Spec == Init /\ [][Next]_vars

\* ------------------------------------- startBackgroundChecker called again

\* How many times startBackgroundChecker is called in all.
MaxStarts == 2

\* startBackgroundChecker(db) is called once more while the process boots:
\* another setTimeout and another setInterval are armed.
StartAgain ==
    /\ running
    /\ clock = 0
    /\ Len(extra) < MaxStarts - 1
    /\ extra' = Append(extra, [startupPending |-> TRUE,
                               nextInterval |-> RECHECK_INTERVAL])
    /\ ev' = NoEvent
    /\ UNCHANGED <<cyc, users, autoCleanup, running, media, nextId, authKey, clock, advances, requests,
                   startupPending, nextInterval, jobs, hist>>

\* The setTimeout callback of a further call.
ExtraStartupTick ==
    /\ running
    /\ NoneQueued
    /\ Len(jobs) < MaxJobs
    /\ \E k \in 1..Len(extra) :
         /\ extra[k].startupPending
         /\ clock = STARTUP_DELAY
         /\ extra' = [extra EXCEPT ![k].startupPending = FALSE]
    /\ Commit(StartPass("startup"), jobs, "StartupTick", {}, "startup")
    /\ UNCHANGED <<cyc, users, autoCleanup, running, requests, nextId, authKey, clock, advances,
                   startupPending, nextInterval>>

\* The setInterval callback of a further call.
ExtraIntervalTick ==
    /\ running
    /\ NoneQueued
    /\ Len(jobs) < MaxJobs
    /\ \E k \in 1..Len(extra) :
         /\ clock = extra[k].nextInterval
         /\ extra' = [extra EXCEPT ![k].nextInterval = @ + RECHECK_INTERVAL]
    /\ Commit(StartPass("interval"), jobs, "IntervalTick", {}, "interval")
    /\ UNCHANGED <<cyc, users, autoCleanup, running, requests, nextId, authKey, clock, advances,
                   startupPending, nextInterval>>

\* The background checker alone, with registrations to probe.
NextStarter ==
    \/ StartAgain
    \/ StartupTick
    \/ IntervalTick
    \/ ExtraStartupTick
    \/ ExtraIntervalTick
    \/ Advance
    \/ AddMovie
    \/ AddSeries
    \/ RunImmediate
    \/ ProbeDone
    \/ DelayDone

SpecStarter == Init /\ [][NextStarter]_vars

\* ------------------------------------------- watched content and cleanup

\* How many episodes the one monitored season of a registered series has
\* (season.statistics.totalEpisodeCount).
MaxEpisodes == 2

\* POST /api/v3/series with a monitored season: addEpisode for each of its
\* episodes, unwatched, before the probe is left to setImmediate.
AddSeriesSeasons ==
    /\ running
    /\ NoneQueued
    /\ nextId <= MaxItems
    /\ Len(jobs) < MaxJobs
    /\ \E tvdb \in {1} :
         LET existing == {i \in getMediaByType(media, "series") :
                              media[i].tvdb_id = tvdb}
             row == [NewRow("series", 2, 1, tvdb) EXCEPT
                        !.episodes = [n \in 1..MaxEpisodes |-> FALSE]]
             m2 == insertMedia(media, nextId, row)
         IN IF existing # {}
            THEN UNCHANGED <<media, nextId, jobs>>
            ELSE /\ media' = m2
                 /\ nextId' = nextId + 1
                 /\ jobs' = Append(jobs, Job("add", <<Snap(m2, nextId)>>, "queued"))
    /\ ev' = NoEvent
    /\ UNCHANGED <<cyc, users, autoCleanup, running, extra, requests, authKey, clock, advances,
                   startupPending, nextInterval, hist>>

\* POST /api/media/:id/watched, with or without deleteAfter.
MarkAsWatched ==
    /\ running
    /\ NoneQueued
    /\ \E id \in Ids(media), deleteAfter \in BOOLEAN :
         /\ deleteAfter \/ ~media[id].watched
         /\ media' = markAsWatched(media, id, deleteAfter)
    /\ ev' = NoEvent
    /\ UNCHANGED <<cyc, users, autoCleanup, running, extra, requests, nextId, authKey, clock,
                   advances, startupPending, nextInterval, jobs, hist>>

\* DELETE /api/media/:id/watched
MarkAsUnwatched ==
    /\ running
    /\ NoneQueued
    /\ \E id \in Ids(media) :
         /\ media[id].watched
         /\ media' = markAsUnwatched(media, id)
    /\ ev' = NoEvent
    /\ UNCHANGED <<cyc, users, autoCleanup, running, extra, requests, nextId, authKey, clock,
                   advances, startupPending, nextInterval, jobs, hist>>

\* db.markEpisodeWatched(episodeId), the entry the database module gives
\* the collaborator that tracks what was played.
MarkEpisodeWatched ==
    /\ running
    /\ NoneQueued
    /\ \E id \in Ids(media) : \E n \in 1..Len(media[id].episodes) :
         /\ ~media[id].episodes[n]
         /\ media' = markEpisodeWatched(media, id, n)
    /\ ev' = NoEvent
    /\ UNCHANGED <<cyc, users, autoCleanup, running, extra, requests, nextId, authKey, clock,
                   advances, startupPending, nextInterval, jobs, hist>>

\* PUT /api/settings/auto_cleanup_1 with the value 'true' or 'false'.
SetAutoCleanup ==
    /\ running
    /\ NoneQueued
    /\ \E value \in BOOLEAN : value # autoCleanup /\ autoCleanup' = value
    /\ ev' = NoEvent
    /\ UNCHANGED <<cyc, users, running, extra, requests, media, nextId, authKey, clock,
                   advances, startupPending, nextInterval, jobs, hist>>

\* Registrations, what is marked watched, deletions and the background
\* checker with its cleanup.
NextCleanup ==
    \/ AddMovie
    \/ AddSeries
    \/ AddSeriesSeasons
    \/ MarkAsWatched
    \/ MarkAsUnwatched
    \/ MarkEpisodeWatched
    \/ SetAutoCleanup
    \/ DeleteMedia
    \/ StartupTick
    \/ IntervalTick
    \/ Advance
    \/ RunImmediate
    \/ ProbeDone
    \/ DelayDone

SpecCleanup == Init /\ [][NextCleanup]_vars

\* ------------------------------------------------------- user management

\* How many users are ever created, the default administrator included.
MaxUsers == 3

Usernames == {"admin", "alice", "bob"}
Passwords == {"changeme", "secret"}

Admins(u) == {i \in DOMAIN u.rows : u.rows[i].is_admin}

\* createUser(username, password, displayName, isAdmin)
createUser(u, username, password, isAdmin) ==
    [rows |-> [i \in (DOMAIN u.rows) \cup {u.next} |->
                  IF i = u.next THEN UserRow(username, password, isAdmin)
                  ELSE u.rows[i]],
     next |-> u.next + 1]

\* updateUser(id, displayName, isAdmin): one UPDATE, no test of the
\* administrators that are left.
updateUser(u, id, isAdmin) == [u EXCEPT !.rows[id].is_admin = isAdmin]

\* updateUserPassword(id, newPassword)
updateUserPassword(u, id, password) == [u EXCEPT !.rows[id].password_hash = password]

\* deleteUser(id): throws for the last administrator.
deleteUserThrows(u, id) == u.rows[id].is_admin /\ Cardinality(Admins(u)) <= 1

deleteUser(u, id) == [u EXCEPT !.rows = [i \in (DOMAIN u.rows) \ {id} |-> u.rows[i]]]

\* POST /api/users: 409 when the username is taken.
CreateUser ==
    /\ running
    /\ NoneQueued
    /\ users.next <= MaxUsers
    /\ \E username \in Usernames, password \in Passwords, isAdmin \in BOOLEAN :
         /\ \A i \in DOMAIN users.rows : users.rows[i].username # username
         /\ users' = createUser(users, username, password, isAdmin)
    /\ ev' = NoEvent
    /\ UNCHANGED <<cyc, autoCleanup, running, extra, requests, media, nextId, authKey,
                   clock, advances, startupPending, nextInterval, jobs, hist>>

\* PUT /api/users/:id with isAdmin in the body.
UpdateUser ==
    /\ running
    /\ NoneQueued
    /\ \E id \in DOMAIN users.rows, isAdmin \in BOOLEAN :
         /\ isAdmin # users.rows[id].is_admin
         /\ users' = updateUser(users, id, isAdmin)
    /\ ev' = NoEvent
    /\ UNCHANGED <<cyc, autoCleanup, running, extra, requests, media, nextId, authKey,
                   clock, advances, startupPending, nextInterval, jobs, hist>>

\* PUT /api/users/:id/password
ChangePassword ==
    /\ running
    /\ NoneQueued
    /\ \E id \in DOMAIN users.rows, password \in Passwords :
         /\ password # users.rows[id].password_hash
         /\ users' = updateUserPassword(users, id, password)
    /\ ev' = NoEvent
    /\ UNCHANGED <<cyc, autoCleanup, running, extra, requests, media, nextId, authKey,
                   clock, advances, startupPending, nextInterval, jobs, hist>>

\* DELETE /api/users/:id: 400 when deleteUser throws; the user's media rows
\* go with the user (ON DELETE CASCADE).
DeleteUser ==
    /\ running
    /\ NoneQueued
    /\ \E id \in DOMAIN users.rows :
         /\ ~deleteUserThrows(users, id)
         /\ users' = deleteUser(users, id)
         /\ media' = Remove(media, {i \in Ids(media) : media[i].user_id = id})
    /\ ev' = NoEvent
    /\ UNCHANGED <<cyc, autoCleanup, running, extra, requests, nextId, authKey,
                   clock, advances, startupPending, nextInterval, jobs, hist>>

\* The user management of the WebUI.
NextUsers ==
    \/ CreateUser
    \/ UpdateUser
    \/ ChangePassword
    \/ DeleteUser

SpecUsers == Init /\ [][NextUsers]_vars

\* The event loop runs every setImmediate callback and every expired
\* pacing delay; no outside service is assumed to answer a probe.
FairSpec == Spec /\ WF_vars(RunImmediate) /\ WF_vars(DelayDone)

\* ------------------------------------------- filter preferences (yardstick)

\* 480p < 720p < 1080p < 4K, on extracted (upper-cased) tags and on the
\* configured minimum alike.
QualityRank(q) ==
    CASE ToUpperCase(q) = "480P" -> 1
      [] ToUpperCase(q) = "720P" -> 2
      [] ToUpperCase(q) = "1080P" -> 3
      [] ToUpperCase(q) \in {"4K", "2160P"} -> 4
      [] OTHER -> 0

ResolutionPass(quality, min) ==
    \/ min = ""
    \/ /\ quality # ""
       /\ \/ quality \in {"HDR", "DV"}
          \/ QualityRank(quality) >= QualityRank(min)

LanguagePass(line, tags) ==
    \/ tags = {}
    \/ \E k \in 1..Len(line) : ToUpperCase(line[k]) \in {ToUpperCase(g) : g \in tags}

passesFilters(s, prefs) ==
    /\ ResolutionPass(StreamDetail(s).quality, prefs.minResolution)
    /\ LanguagePass(DisplayName(s) \o Flatten(s.name) \o Flatten(s.title),
                    prefs.languageTags)

PrefsConfigured(prefs) == prefs.languageTags # {} \/ prefs.minResolution # ""

\* --------------------------------------------------- probe cycle: properties

RECURSIVE SetSum(_, _)
SetSum(S, f) ==
    IF S = {} THEN 0
    ELSE LET x == CHOOSE y \in S : TRUE IN f[x] + SetSum(S \ {x}, f)

SeenIdx(c) == 1..Len(c.seen)
OkIdx(c) == {k \in SeenIdx(c) : c.seen[k].kind = "ok"}
FailedIdx(c) == {k \in SeenIdx(c) : c.seen[k].kind \in {"timeout", "neterr", "non2xx"}}
Evidence(c) == {c.result.addons[k] : k \in 1..Len(c.result.addons)}
PerAddonStageDone(c) == c.pc = "done" /\ c.listed

\* The addons of the restricted list that declare the item's kind.
Eligible(c) == {k \in 1..Len(c.addons) : c.media.type \in c.addons[k].types}

\* Every entry of every parsed answer is a stream with string fields.
WellFormedAnswers(c) ==
    \A k \in OkIdx(c) : \A n \in 1..Len(c.seen[k].streams) :
        c.seen[k].streams[n].malformed = ""

\* A usable stream: one that passes the owner's filter preferences.
Usable(s, prefs) == passesFilters(s, prefs)

UsableCount(streams, prefs) ==
    Cardinality({n \in 1..Len(streams) : Usable(streams[n], prefs)})

\* The usable streams of the 2xx answers, summed over the set of answers.
UsableTotal(c) ==
    SetSum(OkIdx(c), [k \in OkIdx(c) |-> UsableCount(c.seen[k].streams, c.prefs)])

\* C3: for a probe that reaches the per-addon stage and gets well-formed
\* answers, streamCount is the sum, over the queried addons that answered
\* 2xx, of the number of usable streams they returned, available is TRUE
\* exactly when that sum is positive, and exactly the addons of the
\* restricted list that declare the kind were queried; the sum is taken
\* over a set, so the order of the queries is immaterial.
C3_CountIsSumOfUsable ==
    (PerAddonStageDone(cyc) /\ WellFormedAnswers(cyc)) =>
        /\ cyc.result.streamCount = UsableTotal(cyc)
        /\ cyc.result.available = (UsableTotal(cyc) > 0)
        /\ {cyc.seen[k].id : k \in SeenIdx(cyc)}
             = {cyc.addons[k].id : k \in Eligible(cyc)}

\* C4: when the owner has filter preferences and every stream of every
\* addon fails them, the verdict is {available: false, streamCount: 0}.
C4_AllFilteredMeansUnavailable ==
    ( /\ PerAddonStageDone(cyc)
      /\ PrefsConfigured(cyc.prefs)
      /\ \A k \in OkIdx(cyc) : \A n \in 1..Len(cyc.seen[k].streams) :
            cyc.seen[k].streams[n].malformed = ""
            /\ ~passesFilters(cyc.seen[k].streams[n], cyc.prefs) )
    => (~cyc.result.available /\ cyc.result.streamCount = 0)

\* C5: no stream whose extracted quality is below the configured minimum
\* resolution (or that has no extractable quality when a minimum is
\* configured) is counted in the verdict's evidence.
C5_ResolutionOrderRespected ==
    PerAddonStageDone(cyc) =>
        \A e \in Evidence(cyc) : \A n \in 1..Len(e.streams) :
            ResolutionPass(e.streams[n].quality, cyc.prefs.minResolution)

\* C6: a failed addon query (timeout, error, non-2xx) does not end the
\* cycle: every eligible addon before and after it is still queried, every
\* addon that answered with streams is in the evidence with its count, and
\* the verdict carries no top-level failure reason.
C6_FailureIsSkipped ==
    (PerAddonStageDone(cyc) /\ FailedIdx(cyc) # {}) =>
        /\ Len(cyc.seen) = Cardinality(Eligible(cyc))
        /\ cyc.result.reason = ""
        /\ cyc.result.hasAddons
        /\ \A k \in OkIdx(cyc) :
             (Len(cyc.seen[k].streams) > 0 /\ ~MapThrows(cyc.seen[k].streams)) =>
                \E e \in Evidence(cyc) :
                   /\ e.id = cyc.seen[k].id
                   /\ e.streamCount = Len(cyc.seen[k].streams)

C6_Witness ==
    /\ PerAddonStageDone(cyc)
    /\ Len(cyc.seen) = 3
    /\ cyc.seen[1].kind = "ok" /\ Len(cyc.seen[1].streams) = 1
    /\ cyc.seen[2].kind = "timeout"
    /\ cyc.seen[3].kind = "ok" /\ Len(cyc.seen[3].streams) = 2
    /\ cyc.result.streamCount = 3
    /\ Len(cyc.result.addons) = 2

\* C7: a probe that has started querying addons eventually returns a
\* verdict, whatever the addons do.
C7_ProbeReturns == cyc.listed ~> (cyc.pc = "done")

\* -------------------------------------------------------- system: properties

Row(id) == media[id]

PassesInProgress == {j \in 1..Len(jobs) : jobs[j].src \in PassSources}

\* The tick of the background checker before the one at `now`.
PrevTick(now) ==
    IF now = RECHECK_INTERVAL THEN STARTUP_DELAY ELSE now - RECHECK_INTERVAL

\* C1: every id an emulated API reports as available (Jellyfin /Items,
\* /Users/:userId/Items, item by id, /Items/Latest, Radarr hasFile) is a
\* stored row whose streams_available flag is set, and a set flag means
\* a verdict with available = true was stored for that id before.
C1_OnlyVerifiedItemsExposed ==
    /\ \A id \in ev.ids : id \in Ids(media) /\ Row(id).streams_available
    /\ \A id \in Ids(media) : Row(id).streams_available => hist[id].positive

\* An endpoint has just reported a movie as available while another row,
\* registered and not yet verified, stays hidden.
C1_Witness ==
    /\ \E id \in ev.ids : Row(id).type = "movie" /\ hist[id].positive
    /\ \E id \in Ids(media) : ~Row(id).streams_available /\ id \notin ev.ids

\* C2: for every stored row, streams_available is set exactly when
\* stream_count > 0, and exactly when streams_detail is a non-empty list.
C2_FlagCountDetailAgree ==
    \A id \in Ids(media) :
        /\ Row(id).streams_available <=> Row(id).stream_count > 0
        /\ Row(id).stream_count > 0 <=>
             (~Row(id).streams_detail.isnull /\ Len(Row(id).streams_detail.list) > 0)

\* C8: a 24-hour tick does not skip a row on account of the check the
\* previous tick's pass made: no row skipped by the pass of a tick has its
\* latest verdict stored by a background pass since the previous tick.
C8_RetriedEveryTick ==
    ev.op = "IntervalTick" =>
        \A id \in ev.skipped :
            ~(/\ id \in Ids(media)
              /\ hist[id].sched
              /\ Row(id).last_stream_check >= PrevTick(clock))

\* C9: a recheck pass starts a probe only for a row that was unavailable
\* when selected, and whose stored last_stream_check is null or at least
\* RECHECK_INTERVAL old when the pass reaches it.
C9_PassProbesOnlyStale ==
    \A p \in ev.probed :
        /\ ~p.snapAvailable
        /\ p.storedCheck = NoCheck \/ clock - p.storedCheck >= RECHECK_INTERVAL

\* C10: at most one recheck pass is in progress at any time.
C10_NoOverlappingPasses == Cardinality(PassesInProgress) <= 1

\* ------------------------------------------------- system: the Latest listing

\* The re-verification tasks GET /Items/Latest has started.
LatestJobs == {j \in 1..Len(jobs) : jobs[j].src = "latest"}

TodoIds(job) == {job.todo[k].id : k \in 1..Len(job.todo)}

\* The row is on the list of a re-verification task.
Reverifying(id) == \E j \in LatestJobs : id \in TodoIds(jobs[j])

\* The last step stored a verdict of a task of that source for the row.
RecordedBy(id, src) == \E r \in ev.recorded : r.id = id /\ r.src = src

\* The last step was a failure on the row, or the process has exited.
FailedOn(id) == ~running \/ \E f \in ev.failed : f.id = id

\* The state right after GET /Items/Latest has answered: the answer is the
\* listing of the store as it is, no probe has started and no verdict was
\* stored in that step, every served row whose last check is null or more
\* than an hour old is on the list of a task that waits for its
\* setImmediate turn, and such a task lists only rows that are that stale.
LatestAnswered ==
    ev.op = "GetItemsLatest" =>
        /\ \E limit \in {1, 16} : ev.ids = Range(LatestItems(media, limit))
        /\ ev.recorded = {} /\ ev.probed = {}
        /\ \A id \in ev.ids : NeedsReverify(media[id], clock) =>
              \E j \in LatestJobs : jobs[j].st = "queued" /\ id \in TodoIds(jobs[j])
        /\ \A j \in LatestJobs : jobs[j].st = "queued" =>
              \A k \in 1..Len(jobs[j].todo) :
                  NeedsReverify(jobs[j].todo[k].row, clock)

\* C11: GET /Items/Latest answers from the store alone and leaves the
\* reprobe of every served row last checked more than an hour ago (or
\* never) to a task that starts after the answer, rows checked within the
\* hour are not on that task's list, and the verdict of each listed row is
\* eventually stored for it (unless the row is deleted meanwhile, or the
\* store throws on it).
C11_StaleServedIsReverified ==
    /\ []LatestAnswered
    /\ \A id \in 1..MaxItems :
          Reverifying(id) ~> (\/ RecordedBy(id, "latest")
                              \/ id \notin Ids(media)
                              \/ FailedOn(id))

\* ------------------------------------------------ system: the notification

\* The sources whose probe re-checks a row that is already stored.
RecheckSources == LoopSources \cup {"manual"}

\* The last step stored a verdict that turned the row's flag from false
\* to true.
Transition(r) == ~r.was /\ r.v.available

\* C12: notifyMediaAvailable is called only by the probe that follows a
\* registration and only with an available verdict; a step of a scheduler
\* pass, of a re-verification or of a manual check calls it never,
\* whatever it records.
C12_NotifiedOnlyAfterRegistration ==
    /\ \A n \in ev.notified : n.src = "add" /\ n.available
    /\ (\E r \in ev.recorded : r.src \in RecheckSources) => ev.notified = {}

\* A recheck has just turned a row available, and nothing was notified.
C12_Witness ==
    /\ \E r \in ev.recorded : r.src \in RecheckSources /\ Transition(r)
    /\ ev.notified = {}

\* C13: whenever the first probe of a newly registered row, movie or
\* series, records a false -> true transition, notifyMediaAvailable is
\* called for that row.
C13_RegistrationTransitionNotified ==
    \A r \in ev.recorded :
        (r.src = "add" /\ Transition(r)) => \E n \in ev.notified : n.id = r.id

\* -------------------------------------------------- system: stored verdicts

\* The four availability fields of a row as getMediaById returns them
\* (streams_detail parsed, NULL when the column is NULL).
ReadBack(m, id) ==
    [available |-> m[id].streams_available, streamCount |-> m[id].stream_count,
     lastChecked |-> m[id].last_stream_check, evidence |-> m[id].streams_detail]

\* The four fields a verdict carries; its evidence is its addons list, or
\* nothing when it has no addons property.
Carried(v) ==
    [available |-> v.available, streamCount |-> v.streamCount,
     lastChecked |-> v.lastChecked,
     evidence |-> IF v.hasAddons THEN Detail(v.addons) ELSE NullDetail]

\* C14: right after updateStreamStatus has stored a verdict for an
\* existing row, the row reads back with exactly the flag, count, check
\* time and evidence of that verdict, whatever evidence it held before.
C14_ReadBackIsVerdictWritten ==
    \A r \in ev.recorded : ReadBack(media, r.id) = Carried(r.v)

\* A row that held the evidence entries of an earlier verdict has just been
\* given a verdict without an evidence list, and reads back without any.
C14_Witness ==
    \E r \in ev.recorded :
        /\ ~r.had.isnull /\ Len(r.had.list) > 0
        /\ ~r.v.hasAddons
        /\ media[r.id].streams_detail = NullDetail

\* The times Date.now() can show when a probe returns.
Times == {0, STARTUP_DELAY} \cup {k * RECHECK_INTERVAL : k \in 1..(MaxAdvances + 1)}

\* Every verdict checkStreamsAvailable can return in the running system.
PossibleVerdicts ==
    {checkStreamsAvailable(NewRow(t, 1, i, 0), k, NoSelection, o, now) :
        t \in Kinds, i \in {0, 1}, k \in BOOLEAN,
        o \in SysOutcomes \cup {NoOutcome}, now \in Times}

\* The four fields of a row no verdict was stored for.
NeverChecked == ReadBack(<<NewRow("movie", 1, 0, 0)>>, 1)

\* C15: whatever the order in which the probes of a row complete, the row
\* always reads back with the four fields of one single verdict (or the
\* defaults of a row never checked), never with fields of two verdicts,
\* and the verdict stored last is the one read back.
C15_OneVerdictLastWins ==
    /\ \A id \in Ids(media) :
          ReadBack(media, id) \in {Carried(v) : v \in PossibleVerdicts} \cup {NeverChecked}
    /\ \A r \in ev.recorded :
          \E v \in PossibleVerdicts : r.v = v /\ ReadBack(media, r.id) = Carried(v)

\* One probe of a row has just overwritten the verdict of an earlier one
\* with a different flag while another probe of the same row is in flight.
C15_Witness ==
    \E r \in ev.recorded, j \in 1..Len(jobs) :
        /\ jobs[j].st = "probing" /\ Head(jobs[j].todo).id = r.id
        /\ ~r.had.isnull
        /\ r.was # r.v.available

\* UNIQUE(user_id, type, tmdb_id): two rows are the same title of the same
\* user.
SameTitle(a, b) ==
    a.user_id = b.user_id /\ a.type = b.type /\ a.tmdb_id = b.tmdb_id

\* C16: the four availability fields a user's title reads back with change
\* in a step only when that step stores a verdict for it with
\* updateStreamStatus; registering the title again, like every other
\* operation, leaves them as they were.
C16_OnlyVerdictsChangeAvailability ==
    [][\A i \in Ids(media), k \in Ids(media') :
          (SameTitle(media[i], media'[k]) /\ ReadBack(media, i) # ReadBack(media', k))
              => \E r \in ev'.recorded : r.id = k]_vars

\* C17: a failure on one item of a pass stays inside that item: the
\* process keeps running, so the scheduler keeps ticking, and the task of
\* the pass is still there with every row it had left to probe.
C17_FailureStaysInsideItem ==
    /\ running
    /\ \A f \in ev.failed :
          f.src \in LoopSources =>
              \E j \in 1..Len(jobs) :
                  jobs[j].src = f.src /\ f.rest \subseteq TodoIds(jobs[j])

\* The probe has ended without an id to query the addons with, the owner
\* having a Stremio key.
NoIdResolved(c) == c.pc = "done" /\ c.authKey /\ c.imdbId = 0

\* The ids of the addons whose stream endpoint was queried.
QueriedIds(c) == {c.seen[k].id : k \in 1..Len(c.seen)}

\* C18: a probe that resolves no external id ends at once: the addon
\* directory is never called, no addon is queried, and the verdict is
\* unavailable with count 0 and the reason "No IMDB ID", a reason no other
\* return of the probe carries.
C18_NoIdShortCircuits ==
    /\ NoIdResolved(cyc) =>
          /\ cyc.dirCalls = 0 /\ cyc.dir = NoDirAnswer
          /\ cyc.seen = <<>>
          /\ cyc.result = ShortCircuit("No IMDB ID", 0)
    /\ (cyc.pc = "done" /\ cyc.result.reason = "No IMDB ID") => NoIdResolved(cyc)

\* The row has a tmdb id only, TMDB and Cinemeta gave no imdb id, and the
\* probe has returned.
C18_Witness ==
    /\ NoIdResolved(cyc)
    /\ cyc.media.tmdb_id # 0
    /\ cyc.result.reason = "No IMDB ID"

\* The reasons of the two short-circuits on the addon directory.
DirectoryReason(c) ==
    IF c.dir.kind = "error" THEN "Failed to get addons"
    ELSE "No stream addons installed"

\* C19: when the addon directory call fails or lists no stream-capable
\* addon the probe ends with that case's own reason, unavailable with
\* count 0, having queried no addon; the directory is called at most once
\* in a probe.
C19_DirectoryFailureShortCircuits ==
    /\ cyc.dirCalls <= 1
    /\ (cyc.dir.kind = "error" \/ (cyc.dir.kind = "list" /\ cyc.dir.list = <<>>)) =>
          /\ cyc.pc = "done"
          /\ cyc.result = ShortCircuit(DirectoryReason(cyc), 0)
          /\ cyc.seen = <<>>
          /\ cyc.dirCalls = 1

\* Both cases: the call has failed, or has answered an empty list.
C19_Witness ==
    /\ cyc.pc = "done"
    /\ cyc.dirCalls = 1
    /\ cyc.dir.kind = "error"
    /\ cyc.result.reason = "Failed to get addons"

\* The addons of the directory's answer a probe may query under a stored
\* selection.
EligibleUnder(list, selected) ==
    {list[k].id : k \in {n \in 1..Len(list) :
                            selected.isnull \/ selected.ids = {}
                                \/ list[n].id \in selected.ids}}

\* C20: with a non-empty selection only addons of the selection are
\* queried, and none at all (unavailable, count 0) when no installed addon
\* is in it; with no selection or an empty one every installed addon is
\* eligible: at the end each eligible addon that serves the kind has been
\* queried.
C20_SelectionRestrictsAddons ==
    cyc.listed =>
        /\ QueriedIds(cyc) \subseteq EligibleUnder(cyc.dir.list, cyc.selected)
        /\ cyc.pc = "done" =>
              /\ QueriedIds(cyc) =
                    {a \in EligibleUnder(cyc.dir.list, cyc.selected) :
                        \E b \in Catalogue : b.id = a /\ cyc.media.type \in b.types}
              /\ EligibleUnder(cyc.dir.list, cyc.selected) = {} =>
                    /\ ~cyc.result.available
                    /\ cyc.result.streamCount = 0

\* A non-empty selection has kept one installed addon out of the probe
\* and let another in.
C20_Witness ==
    /\ cyc.pc = "done"
    /\ cyc.listed
    /\ ~cyc.selected.isnull /\ cyc.selected.ids # {}
    /\ QueriedIds(cyc) # {}
    /\ \E k \in 1..Len(cyc.dir.list) : cyc.dir.list[k].id \notin cyc.selected.ids

\* The installed addon of that id.
AddonOf(id) == CHOOSE a \in Catalogue : a.id = id

\* C21: every stream request of a probe carries the key <id>:1:1 for a
\* series, whatever episodes the series has, and the bare id for a movie,
\* and goes to the addon's transport URL without its trailing
\* manifest.json when it ends with one, unchanged otherwise.
C21_StreamKeyAndEndpoint ==
    \A k \in 1..Len(cyc.sent) :
        LET q == cyc.sent[k]
            u == AddonOf(q.id).transportUrl
        IN /\ q.type = cyc.media.type
           /\ q.key = IF cyc.media.type = "series" THEN <<cyc.imdbId, 1, 1>>
                      ELSE <<cyc.imdbId>>
           /\ cyc.imdbId # 0
           /\ \/ u = q.base \o <<"manifest.json">>
              \/ u = q.base /\ u[Len(u)] # "manifest.json"

\* A series whose stored episodes are all of season 2 has been asked for
\* at an addon whose transport URL ends with manifest.json.
C21_Witness ==
    /\ cyc.media.type = "series"
    /\ cyc.media.episodes # {} /\ <<1, 1>> \notin cyc.media.episodes
    /\ \E k \in 1..Len(cyc.sent) :
          /\ cyc.sent[k].id = "A"
          /\ cyc.sent[k].base = <<"a.example">>

\* The addon declares the kind of the probed item.
ServesKind(id, c) == c.media.type \in AddonOf(id).types

\* C22: an addon that does not declare the item's kind is sent no request,
\* has no answer recorded and no entry in the evidence; when no addon of
\* the list declares the kind the verdict is unavailable with count 0.
C22_TypeMismatchSkipped ==
    /\ \A k \in 1..Len(cyc.sent) : ServesKind(cyc.sent[k].id, cyc)
    /\ \A k \in 1..Len(cyc.seen) : ServesKind(cyc.seen[k].id, cyc)
    /\ \A k \in 1..Len(cyc.acc.checkedAddons) :
          ServesKind(cyc.acc.checkedAddons[k].id, cyc)
    /\ (cyc.pc = "done" /\ cyc.listed
          /\ \A k \in 1..Len(cyc.addons) : ~ServesKind(cyc.addons[k].id, cyc)) =>
          /\ cyc.result = FinalVerdict(EmptyAcc, 0)
          /\ ~cyc.result.available /\ cyc.result.streamCount = 0

\* A movie was probed with only the series addon installed: the addon
\* was skipped and the probe has returned.
C22_Witness ==
    /\ cyc.pc = "done" /\ cyc.listed
    /\ cyc.media.type = "movie"
    /\ cyc.addons = <<AddonC>>
    /\ cyc.sent = <<>>
    /\ ~cyc.result.available

\* The metadata services the probe has asked.
Asked(c) == {c.lookups[k] : k \in 1..Len(c.lookups)}

\* What the outside answered during the probe that has ended, as the
\* answers an immediate second probe of the same item gets: TMDB gives an
\* id if it gave one, Cinemeta likewise, the directory fails or lists what
\* it listed, and each addon answers what it answered.
SameAnswers(c) ==
    Outcome("tmdb" \in Asked(c) /\ c.media.imdb_id # 0,
            "cinemeta" \in Asked(c) /\ c.imdbId # 0,
            c.dir.kind = "error",
            c.dir.list,
            [id \in {"A", "B", "C"} |->
                IF id \in QueriedIds(c)
                THEN LET k == CHOOSE n \in 1..Len(c.seen) : c.seen[n].id = id
                     IN Answer(c.seen[k].kind, c.seen[k].streams)
                ELSE Answer("neterr", <<>>)])

\* The second of two probes in immediate succession: the item as the
\* first probe left it, the same settings, the same answers.
SecondVerdict(c) ==
    checkStreamsAvailable(c.media, c.authKey, c.selected, SameAnswers(c), 0)

\* C23: a second probe of the item right after the first, with the same
\* selection and the same answers from the outside, returns the same
\* flag, the same count and the same evidence (and the same reason), also
\* when the first probe got the imdb id from TMDB and stored it.
C23_SecondProbeSameVerdict ==
    cyc.pc = "done" =>
        /\ SecondVerdict(cyc).available = cyc.result.available
        /\ SecondVerdict(cyc).streamCount = cyc.result.streamCount
        /\ SecondVerdict(cyc).hasAddons = cyc.result.hasAddons
        /\ SecondVerdict(cyc).addons = cyc.result.addons
        /\ SecondVerdict(cyc).reason = cyc.result.reason

\* The first probe asked TMDB, stored the id it got, and found streams.
C23_Witness ==
    /\ cyc.pc = "done"
    /\ "tmdb" \in Asked(cyc) /\ cyc.media.imdb_id # 0
    /\ cyc.result.available
    /\ SecondVerdict(cyc).addons = cyc.result.addons

\* The timers of startBackgroundChecker that are armed.
ArmedTimeouts ==
    (IF startupPending THEN 1 ELSE 0)
        + Cardinality({k \in 1..Len(extra) : extra[k].startupPending})
ArmedIntervals == 1 + Len(extra)

\* C24: however often startBackgroundChecker is called, the process has
\* the schedule of one call: at most one startup timer armed and one
\* interval timer, so one pass per tick.
C24_StarterIdempotent == ArmedTimeouts <= 1 /\ ArmedIntervals = 1

\* The probe has made no call to the outside: no metadata lookup, no
\* addon directory call, no stream request.
NoNetworkCall(c) ==
    c.lookups = <<>> /\ c.dirCalls = 0 /\ c.dir = NoDirAnswer
        /\ c.sent = <<>> /\ c.seen = <<>>

\* C25: the probe of an item whose owner is missing or has no Stremio
\* auth key makes no call to the outside at any point and ends in its
\* first step with unavailable, count 0 and the reason of that case.
C25_NoCredentialEndsAtOnce ==
    ~cyc.authKey =>
        /\ NoNetworkCall(cyc)
        /\ cyc.pc \in {"start", "done"}
        /\ cyc.pc = "done" =>
              cyc.result = ShortCircuit("Owner has no Stremio auth key configured", 0)

\* The item has a tmdb id and no imdb id, so an owner with a key would
\* have had TMDB asked; without one the probe has returned.
C25_Witness ==
    /\ ~cyc.authKey
    /\ cyc.pc = "done"
    /\ cyc.media.imdb_id = 0 /\ cyc.media.tmdb_id # 0
    /\ ~cyc.result.available /\ cyc.result.streamCount = 0

\* The probe has obtained the imdb id from a metadata service.
ResolvedByLookup(c) == c.lookups # <<>> /\ c.imdbId # 0

\* C26: a metadata service is asked only while the item carries no imdb
\* id, and the id a probe has obtained from a metadata service is on the
\* item record when the probe ends, so that the next probe asks none.
C26_ResolvedIdWrittenThrough ==
    /\ cyc.pc \in {"tmdb", "cinemeta"} => cyc.media.imdb_id = 0
    /\ (cyc.pc = "done" /\ ResolvedByLookup(cyc)) => cyc.media.imdb_id # 0

\* The probes of recheck passes that are in flight: the pass and the rows
\* it has left, the probed one first.
PassProbing(js) ==
    {[src |-> js[j].src, todo |-> js[j].todo] :
        j \in {n \in 1..Len(js) : js[n].st = "probing" /\ js[n].src \in PassSources}}

\* The rows of a task in its pacing delay that come after the one it has
\* just dealt with.
AfterDelay(js) ==
    {[src |-> js[j].src, rest |-> Tail(js[j].todo)] :
        j \in {n \in 1..Len(js) : js[n].st = "delay"}}

IsSuffix(t, s) == Len(t) <= Len(s) /\ t = SubSeq(s, Len(s) - Len(t) + 1, Len(s))

\* The tasks that are in their pacing delay.
Delayed(js) == {js[j] : j \in {n \in 1..Len(js) : js[n].st = "delay"}}

\* C27: a step puts at most one probe of a pass in flight, and only when
\* the pass begins or when a pacing delay of that pass ends, the probe
\* being of a row that comes after the one the delay followed; that step
\* stores no verdict; and a task enters its pacing delay only in the step
\* that stores the verdict of its row (or finds the row gone, or fails).
C27_PassProbesOneAtATime ==
    [][/\ Cardinality(PassProbing(jobs') \ PassProbing(jobs)) <= 1
       /\ \A p \in PassProbing(jobs') \ PassProbing(jobs) :
             /\ ev'.recorded = {}
             /\ \/ ev'.op \in {"StartupTick", "IntervalTick", "CheckAll"}
                \/ /\ ev'.op = "DelayDone"
                   /\ \E d \in AfterDelay(jobs) :
                         d.src = p.src /\ IsSuffix(p.todo, d.rest)
       /\ \A d \in Delayed(jobs') \ Delayed(jobs) :
             \/ \E r \in ev'.recorded : r.id = Head(d.todo).id /\ r.src = d.src
             \/ Head(d.todo).id \notin Ids(media)
             \/ ev'.failed # {}]_vars

\* The pacing delay of a pass that has stored the verdict of one row has
\* ended and the probe of its next row is in flight.
C27_Witness ==
    /\ ev.op = "DelayDone" /\ ev.src \in PassSources
    /\ ev.probed # {}
    /\ \E j \in 1..Len(jobs) :
          /\ jobs[j].st = "probing" /\ jobs[j].src = ev.src
          /\ \E p \in ev.probed : p.id = Head(jobs[j].todo).id

\* The rows with a probe in flight, per task.
InFlight(j) == IF jobs[j].st = "probing" THEN {Head(jobs[j].todo).id} ELSE {}

\* C28: nothing keeps two probes of one row apart: a pass that begins
\* takes every row stored as unavailable, skipped or listed, whether or
\* not another task has a probe of that row in flight.
C28_NoExclusionPerItem ==
    (ev.op \in {"StartupTick", "IntervalTick", "CheckAll"}) =>
        ev.skipped \cup (IF ev.probed # {} THEN TodoIds(jobs[Len(jobs)]) ELSE {})
            = {i \in Ids(media) : ~media[i].streams_available}

\* A re-verification started by GET /Items/Latest and a pass of the
\* background checker have a probe of the same row in flight.
C28_Witness ==
    \E j \in 1..Len(jobs), k \in 1..Len(jobs) :
        /\ jobs[j].src = "latest" /\ jobs[k].src \in {"startup", "interval"}
        /\ InFlight(j) # {} /\ InFlight(j) = InFlight(k)

\* The addon's 2xx answer holds a stream that passes the owner's filter
\* preferences.
ReturnedUsable(c, k) ==
    \E n \in 1..Len(c.seen[k].streams) :
        /\ c.seen[k].streams[n].malformed = ""
        /\ Usable(c.seen[k].streams[n], c.prefs)

\* C29: the evidence of a verdict has exactly one entry for each addon
\* that returned at least one usable stream, none for any other addon,
\* and no entry holds more than 10 stream records.
C29_EvidencePerAddon ==
    PerAddonStageDone(cyc) =>
        /\ {cyc.result.addons[k].id : k \in 1..Len(cyc.result.addons)}
             = {cyc.seen[k].id : k \in {n \in OkIdx(cyc) : ReturnedUsable(cyc, n)}}
        /\ \A k, n \in 1..Len(cyc.result.addons) :
              cyc.result.addons[k].id = cyc.result.addons[n].id => k = n
        /\ \A k \in 1..Len(cyc.result.addons) :
              Len(cyc.result.addons[k].streams) <= MaxStreamsKept

\* The first line of a text, empty when the text is.
FirstLine(text) == IF text = <<>> THEN <<>> ELSE text[1]

\* The sources of a stream's display name, in their order of priority.
NameSources(s) ==
    <<Flatten(s.filename), FirstLine(s.description), FirstLine(s.title),
      Flatten(s.name), <<"Unknown">>>>

\* The first of them that is not empty.
FirstNonEmpty(s) ==
    NameSources(s)[CHOOSE k \in 1..Len(NameSources(s)) :
                       /\ NameSources(s)[k] # <<>>
                       /\ \A n \in 1..(k - 1) : NameSources(s)[n] = <<>>]

\* C30: the display name recorded for a stream is the first non-empty
\* one of: filename hint, first line of the description, first line of the
\* title, name, "Unknown" (HTML tags removed); an empty source, such as a
\* description whose first line is blank, is passed over.
C30_DisplayNameFirstNonEmpty ==
    PerAddonStageDone(cyc) =>
        \A k \in OkIdx(cyc), e \in 1..Len(cyc.result.addons) :
            cyc.result.addons[e].id = cyc.seen[k].id =>
                \A n \in 1..Len(cyc.result.addons[e].streams) :
                    cyc.result.addons[e].streams[n].name
                        = StripTags(FirstNonEmpty(cyc.seen[k].streams[n]))

\* A movie marked watched, or a series with at least one episode and
\* all of its episodes watched.
FullyWatched(row) ==
    \/ row.type = "movie" /\ row.watched
    \/ /\ row.type = "series"
       /\ Len(row.episodes) > 0
       /\ \A n \in 1..Len(row.episodes) : row.episodes[n]

\* C31: the automatic cleanup deletes a movie only if it is marked
\* watched and a series only if it has at least one episode and all its
\* episodes are watched, and only when the owner's auto-cleanup setting
\* is on.
C31_CleanupOnlyFullyWatched ==
    \A c \in ev.cleaned : c.setting /\ FullyWatched(c.row)

\* A cleanup that deleted a series and left an item that is not fully
\* watched.
C31_Witness ==
    /\ \E c \in ev.cleaned : c.row.type = "series"
    /\ \E id \in Ids(media) : ~FullyWatched(media[id])

\* The row of the probed item once updateStreamStatus has stored the
\* cycle's verdict.
StoredRow(c) ==
    updateStreamStatus(<<NewRow(c.media.type, c.media.tmdb_id, c.imdbId, 0)>>,
                       1, c.result)[1]

RECURSIVE SumOfCounts(_)
SumOfCounts(list) ==
    IF list = <<>> THEN 0 ELSE Head(list).streamCount + SumOfCounts(Tail(list))

\* C32: when the evidence list stored for an item is not empty, the
\* stored stream_count is the sum of the streamCount of its entries.
C32_CountIsSumOfEvidence ==
    cyc.pc = "done" =>
        LET row == StoredRow(cyc)
        IN (~row.streams_detail.isnull /\ row.streams_detail.list # <<>>) =>
               row.stream_count = SumOfCounts(row.streams_detail.list)

\* The ids the media table has given out that have no row: deleted items.
Deleted(m, next) == (1..(next - 1)) \ Ids(m)

\* C33: an item deleted while a probe of it is in flight stays deleted:
\* no step gives a deleted id a row again, and the step in which the
\* probe of a deleted item ends changes no row of the media table.
C33_DeletedStaysDeleted ==
    [][/\ Deleted(media, nextId) \subseteq Deleted(media', nextId')
       /\ ev'.late # {} => media' = media]_vars

\* The probe of an item ended after the cleanup or a request had deleted
\* the item, with another item stored.
C33_Witness ==
    /\ ev.late # {}
    /\ ev.late \subseteq Deleted(media, nextId)
    /\ Ids(media) # {}

\* C34: the stored last_stream_check of an item never decreases: every
\* step leaves it as it is or replaces it by a later or equal time.
C34_CheckTimeNeverDecreases ==
    [][\A id \in Ids(media) \cap Ids(media') :
          media'[id].last_stream_check >= media[id].last_stream_check]_vars

\* A verdict stored over an earlier one, with a later check time.
C34_Witness ==
    \E r \in ev.recorded :
        /\ r.before # NoCheck
        /\ r.v.lastChecked > r.before
        /\ Row(r.id).last_stream_check = r.v.lastChecked

\* C35: registering a movie its user has already registered gives back
\* the stored record: no step stores, under a new id, a movie with the
\* user and tmdb id of a movie already stored, and so none replaces the
\* stored record, resets its availability fields or starts a probe for it.
C35_RegisteringAgainKeepsRecord ==
    [][\A i \in Ids(media) : media[i].type = "movie" =>
          \A k \in Ids(media') \ Ids(media) : ~SameTitle(media[i], media'[k])]_vars

\* C36: when a recheck pass starts the probe of an item, the item is
\* stored with streams_available = 0: the pass does not probe again an
\* item another probe has marked available since the pass selected it.
C36_PassProbesOnlyStoredUnavailable ==
    \A p \in ev.probed : ~p.storedAvailable

\* C37: the re-verification a GET /Items/Latest request leaves to
\* setImmediate holds only items of that request's response: an item the
\* final limit left out of the response is not probed again by it.
C37_ReverifiesOnlyAnswered ==
    ev.op = "GetItemsLatest" =>
        \A j \in LatestJobs :
            jobs[j].st = "queued" => TodoIds(jobs[j]) \subseteq ev.ids

\* C38: after any sequence of user creations, updates, password changes
\* and deletions, at least one user is an administrator.
C38_AnAdminExists == Admins(users) # {}

====
